---- MODULE Spec2Model ----
(***************************************************************************)
(* Paper-trading ledger (src/src/paper_trader.py), capital allocator       *)
(* (src/src/allocator.py) and metrics engine (src/src/performance.py).     *)
(*                                                                         *)
(* Arithmetic.  Prices are multiples of 1/PriceScale dollar, so a yes      *)
(* price is an integer in 0..PriceScale and the price of the "no" side is  *)
(* PriceScale - yes.  Money is counted in the same unit, which makes       *)
(* quantity * price an integer.  The source computes in binary floating    *)
(* point; the model computes the same expressions exactly.                 *)
(***************************************************************************)
EXTENDS Integers, Sequences, FiniteSets, TLC

\* Resolution of the price grid.
PriceScale == 3
\* Number of position ids (uuid4 values) that are ever issued.
MaxPositions == 2
\* Hours the clock runs.
MaxTime == 1
\* Number of effective rebalances (entries of the allocation history).
MaxRebalances == 2

\* Optional[float] = None (exit_price, exit_value of an open position).
NoValue == -1

\* Enabled strategies, in the order Orchestrator.initialize creates portfolios.
PortfolioOrder == <<"MeanReversion", "Momentum", "MarketMaking">>
Strategies == {PortfolioOrder[i] : i \in 1..Len(PortfolioOrder)}
\* strategy_name of the signals offered to execute_signal; "Unknown" has no
\* portfolio.  MarketMaking only emits side = "both", which is filtered upstream.
Markets == {"MKT-A", "MKT-B"}
Sides == {"yes", "no"}
\* Requested dollar sizes offered to execute_signal.
Sizes == {2, 5, 7}
\* Market yes prices offered to execute_signal (1/PriceScale and 1.0), to
\* close_position (the two resolution prices) and in market snapshots.
EntryPrices == {1, PriceScale}
SettlePrices == {0, PriceScale}
SnapshotPrices == {PriceScale - 1}

\* Configurations the program is run under (config.yaml is an input of the
\* program).  Money fields are in model money units, max_exposure_pct in
\* percent, performance_weight and risk_weight in tenths.
Configs ==
  { [ max_total_capital |-> 240, max_position_size |-> 6, max_daily_loss |-> 4,
      max_concurrent_positions |-> n, max_exposure_pct |-> 3,
      initial_capital |-> 4,
      min_trades_for_ranking |-> 5,
      rebalance_interval_hours |-> 1,
      performance_weight |-> 7, risk_weight |-> 3 ] : n \in {1, 2} }

VARIABLES
  config,        \* PaperTrader.config / risk_config
  portfolios,    \* PaperTrader.portfolios
  daily_pnl,     \* PaperTrader._daily_pnl
  next_id,       \* ids issued so far + 1 (uuid4 never repeats)
  last,          \* the last call: operation, id argument, last log event, return value
  now,                \* the clock, in hours
  last_rebalance,     \* CapitalAllocator._last_rebalance (NoValue for None)
  allocation_history, \* CapitalAllocator._allocation_history
  capital_history,    \* PerformanceTracker._capital_history
  orchestrator        \* Orchestrator._running (running), MarketScanner._running
                      \* (scanning), where the task of run() stands (task), the
                      \* calls of cleanup() and of shutdown() so far

vars == <<config, portfolios, daily_pnl, next_id, last, now, last_rebalance,
          allocation_history, capital_history, orchestrator>>

allocator_vars == <<now, last_rebalance, allocation_history, capital_history>>

RECURSIVE SumSeq(_)
SumSeq(s) == IF s = <<>> THEN 0 ELSE Head(s) + SumSeq(Tail(s))

RECURSIVE SelectIds(_, _)
\* the subsequence of s whose ids are not id
SelectIds(s, id) ==
  IF s = <<>> THEN <<>>
  ELSE IF Head(s).id = id THEN SelectIds(Tail(s), id)
  ELSE <<Head(s)>> \o SelectIds(Tail(s), id)

\* PaperPosition.pnl
pnl(p) ==
  IF p.status = "open" THEN 0
  ELSE IF p.exit_value # NoValue THEN p.exit_value - p.entry_cost
  ELSE 0

\* StrategyPortfolio.open_positions
open_positions(portfolio) == SelectSeq(portfolio.positions, LAMBDA p : p.status = "open")

\* StrategyPortfolio.total_exposure
total_exposure(portfolio) ==
  LET ops == open_positions(portfolio)
  IN SumSeq([i \in 1..Len(ops) |-> ops[i].entry_cost])

\* StrategyPortfolio.available_capital
available_capital(portfolio) == portfolio.current_capital - total_exposure(portfolio)

\* PaperTrader.initialize_portfolio
initialize_portfolio(strategy_name, capital) ==
  [ strategy_name |-> strategy_name,
    initial_capital |-> capital,
    current_capital |-> capital,
    positions |-> <<>>,
    closed_positions |-> <<>> ]

\* Orchestrator.__init__ and MarketScanner.__init__: both flags False, run()
\* not called yet.
NotStarted ==
  [running |-> FALSE, scanning |-> FALSE, task |-> "idle", cleanups |-> 0, shutdowns |-> 0]

Init ==
  /\ config \in Configs
  /\ orchestrator = NotStarted
  /\ portfolios = [s \in Strategies |-> initialize_portfolio(s, config.initial_capital)]
  /\ daily_pnl = 0
  /\ next_id = 1
  /\ last = [op |-> "init", id |-> 0, log |-> "", result |-> <<>>]
  /\ now = 0
  /\ last_rebalance = NoValue
  /\ allocation_history = <<>>
  /\ capital_history = [s \in Strategies |-> <<>>]

\* ---------------------------------------------------------------- execute

\* The metadata a strategy's analyze() attaches to a signal, as far as an exit
\* predicate reads it: Momentum stores its momentum (positive for "yes",
\* negative for "no"); the others store no "momentum" key (read as 0).
signal_momentum(strategy_name, side) ==
  IF strategy_name = "Momentum" THEN (IF side = "yes" THEN 1 ELSE -1) ELSE 0

signal_of(strategy_name, market_id, side, size) ==
  [ market_id |-> market_id, side |-> side, size |-> size,
    strategy_name |-> strategy_name,
    momentum |-> signal_momentum(strategy_name, side) ]

\* The signals offered to execute_signal: MeanReversion on one market in
\* every size, MeanReversion on the other market and Momentum in one size,
\* and one signal of a strategy that has no portfolio.
Signals ==
  { signal_of("MeanReversion", "MKT-A", sd, sz) : sd \in Sides, sz \in Sizes }
  \cup { signal_of("MeanReversion", "MKT-B", "yes", 5) }
  \cup { signal_of("Momentum", "MKT-A", sd, 5) : sd \in Sides }
  \cup { signal_of("Unknown", "MKT-A", "yes", 2) }

\* sum(p.total_exposure for p in self.portfolios.values())
all_exposure(pfs) ==
  SumSeq([i \in 1..Len(PortfolioOrder) |-> total_exposure(pfs[PortfolioOrder[i]])])

\* sum(len(p.open_positions) for p in self.portfolios.values())
all_open_count(pfs) ==
  SumSeq([i \in 1..Len(PortfolioOrder) |-> Len(open_positions(pfs[PortfolioOrder[i]]))])

\* _check_risk_limits measuring exposure for the signal's own portfolio only.
risk_rejection_per_strategy(signal, portfolio, pfs, dpnl) ==
  IF signal.size > available_capital(portfolio)
    THEN "Insufficient capital"
  ELSE IF signal.size > config.max_position_size
    THEN "Position too large"
  ELSE IF (total_exposure(portfolio) + signal.size) * 100
            > config.max_total_capital * config.max_exposure_pct
    THEN "Would exceed max exposure"
  ELSE IF all_open_count(pfs) >= config.max_concurrent_positions
    THEN "Max positions reached"
  ELSE IF dpnl < -config.max_daily_loss
    THEN "Daily loss limit reached"
  ELSE ""

\* _check_risk_limits rejecting only above max_concurrent_positions.
risk_rejection_count_gt(signal, portfolio, pfs, dpnl) ==
  IF signal.size > available_capital(portfolio)
    THEN "Insufficient capital"
  ELSE IF signal.size > config.max_position_size
    THEN "Position too large"
  ELSE IF (all_exposure(pfs) + signal.size) * 100
            > config.max_total_capital * config.max_exposure_pct
    THEN "Would exceed max exposure"
  ELSE IF all_open_count(pfs) > config.max_concurrent_positions
    THEN "Max positions reached"
  ELSE IF dpnl < -config.max_daily_loss
    THEN "Daily loss limit reached"
  ELSE ""

\* _check_risk_limits with the breaker tripping at exactly -max_daily_loss.
risk_rejection_loss_le(signal, portfolio, pfs, dpnl) ==
  IF signal.size > available_capital(portfolio)
    THEN "Insufficient capital"
  ELSE IF signal.size > config.max_position_size
    THEN "Position too large"
  ELSE IF (all_exposure(pfs) + signal.size) * 100
            > config.max_total_capital * config.max_exposure_pct
    THEN "Would exceed max exposure"
  ELSE IF all_open_count(pfs) >= config.max_concurrent_positions
    THEN "Max positions reached"
  ELSE IF dpnl <= -config.max_daily_loss
    THEN "Daily loss limit reached"
  ELSE ""

\* _check_risk_limits without the available-capital check.
risk_rejection_no_capital(signal, portfolio, pfs, dpnl) ==
  IF signal.size > config.max_position_size
    THEN "Position too large"
  ELSE IF (all_exposure(pfs) + signal.size) * 100
            > config.max_total_capital * config.max_exposure_pct
    THEN "Would exceed max exposure"
  ELSE IF all_open_count(pfs) >= config.max_concurrent_positions
    THEN "Max positions reached"
  ELSE IF dpnl < -config.max_daily_loss
    THEN "Daily loss limit reached"
  ELSE ""

\* PaperTrader._check_risk_limits: the log event of the first limit that
\* rejects the signal, or "" when the trade passes all five.
\* total_exposure + size > max_total_capital * max_exposure_pct is compared
\* with max_exposure_pct in percent, both sides multiplied by 100.
risk_rejection(signal, portfolio, pfs, dpnl) ==
  IF signal.size > available_capital(portfolio)
    THEN "Insufficient capital"
  ELSE IF signal.size > config.max_position_size
    THEN "Position too large"
  ELSE IF (all_exposure(pfs) + signal.size) * 100
            > config.max_total_capital * config.max_exposure_pct
    THEN "Would exceed max exposure"
  ELSE IF all_open_count(pfs) >= config.max_concurrent_positions
    THEN "Max positions reached"
  ELSE IF dpnl < -config.max_daily_loss
    THEN "Daily loss limit reached"
  ELSE ""

\* PaperTrader._check_risk_limits
check_risk_limits(signal, portfolio, pfs, dpnl) ==
  risk_rejection(signal, portfolio, pfs, dpnl) = ""

\* The entry price taken as the yes price on either side.
effective_price_unflipped(side, market_price) == market_price

\* price = market_price if signal.side == "yes" else (1.0 - market_price)
effective_price(side, market_price) ==
  IF side = "yes" THEN market_price ELSE PriceScale - market_price

\* quantity = int(signal.size / price) if price > 0 else 0
position_quantity(size, price) == IF price > 0 THEN size \div price ELSE 0

\* The PaperPosition execute_signal constructs.
new_position(id, signal, market_price) ==
  LET price == effective_price(signal.side, market_price)
      quantity == position_quantity(signal.size, price)
  IN [ id |-> id,
       strategy_name |-> signal.strategy_name,
       market_id |-> signal.market_id,
       ticker |-> signal.market_id,
       side |-> signal.side,
       quantity |-> quantity,
       entry_price |-> price,
       entry_cost |-> quantity * price,
       exit_price |-> NoValue,
       exit_value |-> NoValue,
       status |-> "open",
       momentum |-> signal.momentum,
       close_reason |-> "" ]

\* execute_signal without the quantity <= 0 return.
execute_rejection_no_quantity(ledger, signal, market_price) ==
  IF signal.strategy_name \notin DOMAIN ledger.portfolios
    THEN "No portfolio for strategy"
  ELSE IF ~check_risk_limits(signal, ledger.portfolios[signal.strategy_name],
                             ledger.portfolios, ledger.daily_pnl)
    THEN risk_rejection(signal, ledger.portfolios[signal.strategy_name],
                        ledger.portfolios, ledger.daily_pnl)
  ELSE ""

\* The log event with which execute_signal rejects in the given ledger
\* (portfolios and running daily P&L), or "" when it accepts.
execute_rejection(ledger, signal, market_price) ==
  IF signal.strategy_name \notin DOMAIN ledger.portfolios
    THEN "No portfolio for strategy"
  ELSE IF ~check_risk_limits(signal, ledger.portfolios[signal.strategy_name],
                             ledger.portfolios, ledger.daily_pnl)
    THEN risk_rejection(signal, ledger.portfolios[signal.strategy_name],
                        ledger.portfolios, ledger.daily_pnl)
  ELSE IF position_quantity(signal.size, effective_price(signal.side, market_price)) <= 0
    THEN "Quantity too small"
  ELSE ""

\* Admission that replaces the open map by the new position alone.
with_position_alone(pfs, position) ==
  [pfs EXCEPT ![position.strategy_name].positions = <<position>>]

\* Admission that also debits the entry cost from current_capital.
with_position_debit(pfs, position) ==
  [pfs EXCEPT ![position.strategy_name].positions = Append(@, position),
              ![position.strategy_name].current_capital = @ - position.entry_cost]

\* The portfolios after execute_signal has admitted position.
with_position(pfs, position) ==
  [pfs EXCEPT ![position.strategy_name].positions = Append(@, position)]

\* PaperTrader.execute_signal as a function of the ledger (portfolios, running
\* daily P&L and the next position id): the ledger after the call, its return
\* value (the empty list for None) and its log event.
execute_in(ledger, signal, market_price) ==
  LET why == execute_rejection(ledger, signal, market_price)
      position == new_position(ledger.next_id, signal, market_price)
  IN IF why # ""
       THEN [portfolios |-> ledger.portfolios, daily_pnl |-> ledger.daily_pnl,
             next_id |-> ledger.next_id, result |-> <<>>, log |-> why]
       ELSE [portfolios |-> with_position(ledger.portfolios, position),
             daily_pnl |-> ledger.daily_pnl,
             next_id |-> ledger.next_id + 1,
             result |-> <<position>>, log |-> "Paper trade opened"]

\* PaperTrader.execute_signal; the id counter stops at MaxPositions
execute_signal(signal, market_price) ==
  LET after == execute_in([portfolios |-> portfolios, daily_pnl |-> daily_pnl,
                           next_id |-> next_id], signal, market_price)
  IN /\ after.result # <<>> => next_id <= MaxPositions
     /\ portfolios' = after.portfolios
     /\ daily_pnl' = after.daily_pnl
     /\ next_id' = after.next_id
     /\ last' = [op |-> "execute_signal",
                 id |-> IF after.result = <<>> THEN 0 ELSE after.result[1].id,
                 log |-> after.log, result |-> after.result]
     /\ UNCHANGED <<orchestrator, config, allocator_vars>>

\* ------------------------------------------------------------------ close

has_position(portfolio, position_id) ==
  \E i \in 1..Len(portfolio.positions) : portfolio.positions[i].id = position_id

\* for portfolio in self.portfolios.values(): if position_id in portfolio.positions
\* the names of the portfolios holding position_id, in iteration order
owners(pfs, position_id) ==
  SelectSeq(PortfolioOrder, LAMBDA s : has_position(pfs[s], position_id))

\* The closed position with the yes price as exit price on either side.
closed_position_unflipped(position, exit_price, reason) ==
  [position EXCEPT !.exit_price = exit_price,
                   !.exit_value = position.quantity * exit_price,
                   !.status = "closed",
                   !.close_reason = reason]

\* The position as close_position leaves it.
closed_position(position, exit_price, reason) ==
  LET price == IF position.side = "yes" THEN exit_price ELSE PriceScale - exit_price
  IN [position EXCEPT !.exit_price = price,
                      !.exit_value = position.quantity * price,
                      !.status = "closed",
                      !.close_reason = reason]

\* close_position without `del portfolio.positions[position_id]`, the open
\* map keeping the position as it was.
close_in_keep_open(ledger, position_id, exit_price, reason) ==
  LET own == owners(ledger.portfolios, position_id)
  IN IF own = <<>>
       THEN [portfolios |-> ledger.portfolios, daily_pnl |-> ledger.daily_pnl,
             result |-> <<>>, log |-> "Position not found"]
       ELSE LET name == Head(own)
                portfolio == ledger.portfolios[name]
                i == CHOOSE i \in 1..Len(portfolio.positions) :
                       portfolio.positions[i].id = position_id
                position == closed_position(portfolio.positions[i], exit_price, reason)
            IN [portfolios |->
                  [ledger.portfolios EXCEPT
                     ![name].current_capital = @ + pnl(position),
                     ![name].closed_positions = Append(@, position)],
                daily_pnl |-> ledger.daily_pnl + pnl(position),
                result |-> <<position>>,
                log |-> "Paper trade closed"]

\* close_position without `self._daily_pnl += position.pnl`.
close_in_daily_kept(ledger, position_id, exit_price, reason) ==
  LET own == owners(ledger.portfolios, position_id)
  IN IF own = <<>>
       THEN [portfolios |-> ledger.portfolios, daily_pnl |-> ledger.daily_pnl,
             result |-> <<>>, log |-> "Position not found"]
       ELSE LET name == Head(own)
                portfolio == ledger.portfolios[name]
                i == CHOOSE i \in 1..Len(portfolio.positions) :
                       portfolio.positions[i].id = position_id
                position == closed_position(portfolio.positions[i], exit_price, reason)
            IN [portfolios |->
                  [ledger.portfolios EXCEPT
                     ![name].current_capital = @ + pnl(position),
                     ![name].closed_positions = Append(@, position),
                     ![name].positions = SelectIds(@, position_id)],
                daily_pnl |-> ledger.daily_pnl,
                result |-> <<position>>,
                log |-> "Paper trade closed"]

\* close_position without `portfolio.current_capital += position.pnl`.
close_in_capital_kept(ledger, position_id, exit_price, reason) ==
  LET own == owners(ledger.portfolios, position_id)
  IN IF own = <<>>
       THEN [portfolios |-> ledger.portfolios, daily_pnl |-> ledger.daily_pnl,
             result |-> <<>>, log |-> "Position not found"]
       ELSE LET name == Head(own)
                portfolio == ledger.portfolios[name]
                i == CHOOSE i \in 1..Len(portfolio.positions) :
                       portfolio.positions[i].id = position_id
                position == closed_position(portfolio.positions[i], exit_price, reason)
            IN [portfolios |->
                  [ledger.portfolios EXCEPT
                     ![name].closed_positions = Append(@, position),
                     ![name].positions = SelectIds(@, position_id)],
                daily_pnl |-> ledger.daily_pnl + pnl(position),
                result |-> <<position>>,
                log |-> "Paper trade closed"]

\* PaperTrader.close_position as a function of the ledger (portfolios and
\* running daily P&L): the ledger after the call, its return value (the empty
\* list for None) and its log event.
close_in(ledger, position_id, exit_price, reason) ==
  LET own == owners(ledger.portfolios, position_id)
  IN IF own = <<>>
       THEN [portfolios |-> ledger.portfolios, daily_pnl |-> ledger.daily_pnl,
             result |-> <<>>, log |-> "Position not found"]
       ELSE LET name == Head(own)
                portfolio == ledger.portfolios[name]
                i == CHOOSE i \in 1..Len(portfolio.positions) :
                       portfolio.positions[i].id = position_id
                position == closed_position(portfolio.positions[i], exit_price, reason)
            IN [portfolios |->
                  [ledger.portfolios EXCEPT
                     ![name].current_capital = @ + pnl(position),
                     ![name].closed_positions = Append(@, position),
                     ![name].positions = SelectIds(@, position_id)],
                daily_pnl |-> ledger.daily_pnl + pnl(position),
                result |-> <<position>>,
                log |-> "Paper trade closed"]

\* Position ids offered to close_position: every id that can have been issued.
PositionIds == 1..MaxPositions

\* PaperTrader.close_position
close_position(position_id, exit_price, reason) ==
  LET after == close_in([portfolios |-> portfolios, daily_pnl |-> daily_pnl],
                        position_id, exit_price, reason)
  IN /\ portfolios' = after.portfolios
     /\ daily_pnl' = after.daily_pnl
     /\ last' = [op |-> "close_position", id |-> position_id,
                 log |-> after.log, result |-> after.result]
     /\ UNCHANGED <<orchestrator, config, next_id, allocator_vars>>

\* ------------------------------------------------------------ check_exits

\* MarketData.to_dict(): the fields an exit predicate reads.
CloseInHours == {0, 24}
Snapshots ==
  { [market_id |-> m, yes_price |-> y, close_in_hours |-> h] :
      m \in Markets, y \in SnapshotPrices, h \in CloseInHours }

NoHistory == [has_history |-> FALSE, momentum |-> 0]

\* What MomentumStrategy.price_history holds for the snapshot's market when
\* should_exit runs: too short a history, or the sign of short_ma - long_ma.
MomentumViews ==
  { NoHistory,
    [has_history |-> TRUE, momentum |-> 1],
    [has_history |-> TRUE, momentum |-> -1] }

\* The (strategy, snapshot, price history) triples offered to check_exits;
\* only Momentum reads the price history, and MarketMaking never exits.
ExitChecks ==
  { [strategy |-> "MeanReversion", market_data |-> md, view |-> NoHistory] :
      md \in Snapshots }
  \cup { [strategy |-> "Momentum", market_data |-> md, view |-> v] :
           md \in Snapshots, v \in MomentumViews }
  \cup { [strategy |-> "MarketMaking", market_data |-> md, view |-> NoHistory] :
           md \in {x \in Snapshots : x.market_id = "MKT-A" /\ x.close_in_hours = 0} }

\* MeanReversionStrategy.should_exit, exit_target = 0.50
mean_reversion_should_exit(position, market_data) ==
  IF position.entry_price * 2 > PriceScale /\ market_data.yes_price * 2 <= PriceScale
    THEN TRUE
  ELSE IF position.entry_price * 2 < PriceScale /\ market_data.yes_price * 2 >= PriceScale
    THEN TRUE
  ELSE market_data.close_in_hours < 1

\* MomentumStrategy.should_exit
momentum_should_exit(position, market_data, view) ==
  IF ~view.has_history THEN FALSE
  ELSE IF position.momentum > 0 /\ view.momentum < 0 THEN TRUE
  ELSE IF position.momentum < 0 /\ view.momentum > 0 THEN TRUE
  ELSE market_data.close_in_hours < 2

\* strategy.should_exit(pos_dict, market_data)
should_exit(strategy, position, market_data, view) ==
  CASE strategy = "MeanReversion" -> mean_reversion_should_exit(position, market_data)
    [] strategy = "Momentum" -> momentum_should_exit(position, market_data, view)
    [] OTHER -> FALSE

RECURSIVE exits_loop(_, _, _, _, _)
\* The loop of check_exits over todo, the rest of list(portfolio.open_positions):
\* acc is the ledger so far with the list `closed`.
exits_loop(acc, todo, strategy, market_data, view) ==
  IF todo = <<>> THEN acc
  ELSE LET position == Head(todo)
           after == close_in(acc, position.id, market_data.yes_price, "strategy_exit")
       IN IF position.ticker # market_data.market_id
            THEN exits_loop(acc, Tail(todo), strategy, market_data, view)
          ELSE IF should_exit(strategy, position, market_data, view)
            THEN exits_loop(
                   [portfolios |-> after.portfolios, daily_pnl |-> after.daily_pnl,
                    closed |-> IF after.result # <<>> THEN acc.closed \o after.result
                               ELSE acc.closed],
                   Tail(todo), strategy, market_data, view)
          ELSE exits_loop(acc, Tail(todo), strategy, market_data, view)

\* check_exits returning an empty list whatever it closed.
check_exits_unreported(ledger, strategy, market_data, view) ==
  IF strategy \notin DOMAIN ledger.portfolios
    THEN [portfolios |-> ledger.portfolios, daily_pnl |-> ledger.daily_pnl, closed |-> <<>>]
    ELSE [exits_loop(
            [portfolios |-> ledger.portfolios, daily_pnl |-> ledger.daily_pnl, closed |-> <<>>],
            open_positions(ledger.portfolios[strategy]), strategy, market_data, view)
          EXCEPT !.closed = <<>>]

\* PaperTrader.check_exits as a function of the ledger: the ledger after the
\* call and the list it returns.
check_exits(ledger, strategy, market_data, view) ==
  IF strategy \notin DOMAIN ledger.portfolios
    THEN [portfolios |-> ledger.portfolios, daily_pnl |-> ledger.daily_pnl, closed |-> <<>>]
    ELSE exits_loop(
           [portfolios |-> ledger.portfolios, daily_pnl |-> ledger.daily_pnl, closed |-> <<>>],
           open_positions(ledger.portfolios[strategy]), strategy, market_data, view)

\* PerformanceTracker.record_capital_snapshot, called once per closed position
\* with the portfolio's capital after check_exits returned.
record_capital_snapshots(history, strategy_name, capital, count) ==
  [history EXCEPT ![strategy_name] = @ \o [i \in 1..count |-> capital]]

\* Orchestrator._process_cycle, step 2, for one market and one strategy:
\* check_exits, then a capital snapshot for every position it closed.
process_exits(strategy, market_data, view) ==
  LET after == check_exits([portfolios |-> portfolios, daily_pnl |-> daily_pnl],
                           strategy, market_data, view)
  IN /\ portfolios' = after.portfolios
     /\ daily_pnl' = after.daily_pnl
     /\ capital_history' =
          record_capital_snapshots(capital_history, strategy,
                                   after.portfolios[strategy].current_capital,
                                   Len(after.closed))
     /\ last' = [op |-> "check_exits", id |-> 0,
                 log |-> IF after.closed = <<>> THEN "" ELSE "Paper trade closed",
                 result |-> after.closed]
     /\ UNCHANGED <<orchestrator, config, next_id, now, last_rebalance, allocation_history>>

\* ---------------------------------------------------------------- metrics

\* Scores and ratios are kept in units of 1/ScoreScale, rounded down.
ScoreScale == 1000

Max(a, b) == IF a >= b THEN a ELSE b
Min(a, b) == IF a <= b THEN a ELSE b

RECURSIVE sqrt_between(_, _, _)
\* the largest r in lo..hi with r * r <= n
sqrt_between(n, lo, hi) ==
  IF lo >= hi THEN lo
  ELSE LET mid == (lo + hi + 1) \div 2
       IN IF mid * mid <= n THEN sqrt_between(n, mid, hi)
          ELSE sqrt_between(n, lo, mid - 1)

\* floor(math.sqrt(n))
isqrt(n) == sqrt_between(n, 0, Min(n, 40000))

trade_pnls(portfolio) ==
  [i \in 1..Len(portfolio.closed_positions) |-> pnl(portfolio.closed_positions[i])]

\* len([t for t in trades if t.pnl > 0])
winning_trades(portfolio) ==
  Len(SelectSeq(trade_pnls(portfolio), LAMBDA x : x > 0))

\* gross_profit = sum(t.pnl for t in wins) if wins else 0
gross_profit(portfolio) == SumSeq(SelectSeq(trade_pnls(portfolio), LAMBDA x : x > 0))

\* gross_loss = abs(sum(t.pnl for t in losses)) if losses else 0
gross_loss(portfolio) == 0 - SumSeq(SelectSeq(trade_pnls(portfolio), LAMBDA x : x <= 0))

\* len([t for t in trades if t.pnl <= 0])
losing_trades(portfolio) ==
  Len(SelectSeq(trade_pnls(portfolio), LAMBDA x : x <= 0))

\* metrics.profit_factor = gross_profit / gross_loss if gross_loss > 0 else
\* float('inf'); a finite value is the fraction num / den.
profit_factor(portfolio) ==
  LET gp == gross_profit(portfolio)
      gl == gross_loss(portfolio)
  IN IF gl > 0 THEN [infinite |-> FALSE, num |-> gp, den |-> gl]
     ELSE [infinite |-> TRUE, num |-> gp, den |-> gl]

\* Sortino with the downside variance taken over the negative returns only.
sortino_ratio_negative_count(portfolio) ==
  LET xs == trade_pnls(portfolio)
      n == Len(xs)
      c == portfolio.initial_capital
      S == SumSeq(xs)
      negative == SelectSeq(xs, LAMBDA x : x * c < 0)
      Qneg == SumSeq([i \in 1..Len(negative) |-> negative[i] * negative[i]])
      none == [num |-> 0, den |-> 1]
  IN IF n < 2 THEN [kind |-> "zero", downside_variance |-> none, num |-> 0, root |-> 0]
     ELSE IF c = 0
       THEN [kind |-> "raises", downside_variance |-> none, num |-> 0, root |-> 0]
     ELSE IF negative = <<>>
       THEN [kind |-> "inf", downside_variance |-> none, num |-> 0, root |-> 0]
     ELSE [kind |-> "finite",
           downside_variance |-> [num |-> Qneg, den |-> c * c * Len(negative)],
           num |-> IF c > 0 THEN 50000 * S - n * c ELSE n * c - 50000 * S,
           root |-> Len(negative) * Qneg]

\* PerformanceTracker._calculate_sortino.  The returns are pnl / c with c the
\* initial capital; with S the sum of the n pnls and Qneg the sum of the
\* squares of the pnls of negative return,
\*   downside_variance = Qneg / (c^2 * n)
\*   sortino = (2500 * S/(n c) - 0.05) / (50 * sqrt(Qneg / n) / |c|)
\*           = +-(50000 S - n c) / (1000 * sqrt(n Qneg)),
\* reported as kind "finite" with value num / (1000 * sqrt(root)); kind
\* "zero" is 0.0, "inf" is float('inf'), "raises" the ZeroDivisionError of
\* pnl / 0.
sortino_ratio(portfolio) ==
  LET xs == trade_pnls(portfolio)
      n == Len(xs)
      c == portfolio.initial_capital
      S == SumSeq(xs)
      negative == SelectSeq(xs, LAMBDA x : x * c < 0)
      Qneg == SumSeq([i \in 1..Len(negative) |-> negative[i] * negative[i]])
      none == [num |-> 0, den |-> 1]
  IN IF n < 2 THEN [kind |-> "zero", downside_variance |-> none, num |-> 0, root |-> 0]
     ELSE IF c = 0
       THEN [kind |-> "raises", downside_variance |-> none, num |-> 0, root |-> 0]
     ELSE IF negative = <<>>
       THEN [kind |-> "inf", downside_variance |-> none, num |-> 0, root |-> 0]
     ELSE [kind |-> "finite",
           downside_variance |-> [num |-> Qneg, den |-> c * c * n],
           num |-> IF c > 0 THEN 50000 * S - n * c ELSE n * c - 50000 * S,
           root |-> n * Qneg]

\* Python floats are IEEE 754 doubles: a positive float is m * 2^e with m an
\* integer of MantissaBits bits, kept as the sequence of its bits (most
\* significant first, m[1] = 1), and every operation rounds its exact result
\* to the nearest such number, ties to the even mantissa.  A pnl and a
\* capital are whole numbers of the money unit, held by floats exactly (as
\* -2.0 and 80.0 are); rounding starts with their quotient.
MantissaBits == 53

\* The one element of a singleton set.  An intermediate result is bound as
\* the element of a singleton, v \in {expression}, so that it is computed
\* once and not again at every place it is used.
the(S) == CHOOSE v \in S : TRUE

RECURSIVE div_bits(_, _, _)
\* k bits of the quotient num / den (0 <= num < 2 * den), and twice the
\* remainder left: one step of long division for one bit, the first half of
\* the bits and then the others for more
div_bits(num, den, k) ==
  IF k = 0 THEN [bits |-> <<>>, rest |-> num]
  ELSE IF k = 1
    THEN IF num >= den THEN [bits |-> <<1>>, rest |-> 2 * (num - den)]
                       ELSE [bits |-> <<0>>, rest |-> 2 * num]
  ELSE the({ the({ [bits |-> first.bits \o second.bits, rest |-> second.rest]
                   : second \in {div_bits(first.rest, den, k - (k \div 2))} })
             : first \in {div_bits(num, den, k \div 2)} })

RECURSIVE add_bits(_, _, _)
\* the binary sum of two bit sequences of equal length and a carry, in the
\* same number of bits, and the carry out of the first bit: the low half
\* first, its carry into the high half
add_bits(a, b, carry) ==
  IF a = <<>> THEN [bits |-> <<>>, carry |-> carry]
  ELSE IF Len(a) = 1
    THEN [bits |-> <<(a[1] + b[1] + carry) % 2>>, carry |-> (a[1] + b[1] + carry) \div 2]
  ELSE the({ the({ [bits |-> high.bits \o low.bits, carry |-> high.carry]
                   : high \in {add_bits(SubSeq(a, 1, Len(a) \div 2),
                                        SubSeq(b, 1, Len(a) \div 2), low.carry)} })
             : low \in {add_bits(SubSeq(a, Len(a) \div 2 + 1, Len(a)),
                                 SubSeq(b, Len(a) \div 2 + 1, Len(a)), carry)} })

\* a sequence of n zero bits
zero_bits(n) == [i \in 1..n |-> 0]

\* bits + 1 in the same number of bits, and the carry out of the first bit
increment(bits) == add_bits(bits, zero_bits(Len(bits)), 1)

\* round to nearest, ties to even: bits * 2^e plus a discarded part that is
\* above (up), exactly (tie) or below one half of the last bit kept
round_half_even(bits, e, up, tie) ==
  IF up \/ (tie /\ bits[Len(bits)] = 1)
    THEN the({ IF inc.carry = 1
                 THEN [m |-> <<1>> \o SubSeq(inc.bits, 1, Len(bits) - 1), e |-> e + 1]
                 ELSE [m |-> inc.bits, e |-> e]
               : inc \in {increment(bits)} })
    ELSE [m |-> bits, e |-> e]

RECURSIVE normalized(_, _, _)
\* x / c as (x / c') * 2^e with c' <= x < 2 * c'
normalized(x, c, e) ==
  IF x < c THEN normalized(2 * x, c, e - 1)
  ELSE IF x >= 2 * c THEN normalized(x, 2 * c, e + 1)
  ELSE [x |-> x, c |-> c, e |-> e]

\* the float x / c, for integers x > 0 and c > 0 (t.pnl / initial_capital)
float_div(x, c) ==
  the({ the({ round_half_even(q.bits, nz.e - (MantissaBits - 1),
                              q.rest > nz.c, q.rest = nz.c)
              : q \in {div_bits(nz.x, nz.c, MantissaBits)} })
        : nz \in {normalized(x, c, 0)} })

\* the bits of a sum kept and the rounding of the bits dropped after them
rounded_sum(total, e) ==
  LET q == Len(total) - MantissaBits
      dropped == SubSeq(total, MantissaBits + 1, Len(total))
      below == \E i \in 2..q : dropped[i] = 1
  IN IF q = 0 THEN [m |-> total, e |-> e]
     ELSE round_half_even(SubSeq(total, 1, MantissaBits), e + q,
                          dropped[1] = 1 /\ below, dropped[1] = 1 /\ ~below)

\* the float a + b, for floats a >= b > 0
float_add(a, b) ==
  the({ the({ rounded_sum((IF added.carry = 1 THEN <<1>> ELSE <<>>) \o added.bits, b.e)
              : added \in {add_bits(wide, zero_bits(Len(wide) - MantissaBits) \o b.m, 0)} })
        : wide \in {a.m \o zero_bits(a.e - b.e)} })

RECURSIVE long_division(_, _, _)
\* the quotient bits of the bit sequence by n, given the remainder so far,
\* and the remainder left: the front half of the bits, then the back half
long_division(bits, n, rem) ==
  IF bits = <<>> THEN [bits |-> <<>>, rem |-> rem]
  ELSE IF Len(bits) = 1
    THEN IF 2 * rem + bits[1] >= n
           THEN [bits |-> <<1>>, rem |-> 2 * rem + bits[1] - n]
           ELSE [bits |-> <<0>>, rem |-> 2 * rem + bits[1]]
  ELSE the({ the({ [bits |-> front.bits \o back.bits, rem |-> back.rem]
                   : back \in {long_division(SubSeq(bits, Len(bits) \div 2 + 1, Len(bits)),
                                             n, front.rem)} })
             : front \in {long_division(SubSeq(bits, 1, Len(bits) \div 2), n, rem)} })

\* the number of zero bits before the first one bit
leading_zeros(bits) ==
  IF \A i \in DOMAIN bits : bits[i] = 0 THEN Len(bits)
  ELSE (CHOOSE i \in DOMAIN bits : bits[i] = 1 /\ \A j \in 1..(i - 1) : bits[j] = 0) - 1

\* the float a / n, for a float a > 0 and an integer n > 0 (sum / len)
float_div_int(a, n) ==
  the({ the({ the({ round_half_even(SubSeq(q.bits, z + 1, Len(q.bits)) \o extra.bits,
                                    a.e - z, extra.rest > n, extra.rest = n)
                    : extra \in {div_bits(2 * q.rem, n, z)} })
              : z \in {leading_zeros(q.bits)} })
        : q \in {long_division(a.m, n, 0)} })

RECURSIVE float_sum_equal(_, _)
\* sum([r] * n): 0 + r + r + ... + r, each addition rounded.  (Up to n = 3
\* the compensated summation of newer interpreters gives the same float.)
float_sum_equal(r, n) ==
  IF n = 1 THEN r ELSE the({float_add(partial, r) : partial \in {float_sum_equal(r, n - 1)}})

\* sum(returns) / len(returns) = the return itself, for n trades of the same
\* pnl x # 0 on initial capital c # 0
mean_of_equal_is_exact(x, c, n) ==
  \E r \in {float_div(IF x < 0 THEN 0 - x ELSE x, IF c < 0 THEN 0 - c ELSE c)} :
    \E total \in {float_sum_equal(r, n)} : float_div_int(total, n) = r

\* variance > 0 in _calculate_sharpe fails: every (r - mean_return) ** 2 is 0.0,
\* which needs all returns to be the same float and mean_return to be that
\* float
variance_is_zero(xs, c) ==
  /\ \A i, j \in DOMAIN xs : xs[i] = xs[j]
  /\ xs[1] = 0 \/ mean_of_equal_is_exact(xs[1], c, Len(xs))

\* PerformanceTracker._calculate_sharpe.  With S the sum and Q the sum of
\* squares of the n trade pnls and c the initial capital,
\*   sharpe = (2500 * S/(n c) - 0.05) / (50 * sqrt(n Q - S^2)/(n |c|))
\*          = +-(50000 S - n c) / (1000 * sqrt(n Q - S^2)),
\* reported as kind "finite" with value num / (1000 * sqrt(root)); root = 0
\* stands for the rounding error of mean_return, which makes the quotient
\* astronomically large.  Kind "zero" is 0.0, "raises" the ZeroDivisionError
\* of pnl / 0.
sharpe_ratio(portfolio) ==
  LET xs == trade_pnls(portfolio)
      n == Len(xs)
      c == portfolio.initial_capital
      S == SumSeq(xs)
      Q == SumSeq([i \in 1..n |-> xs[i] * xs[i]])
  IN IF n < 2 THEN [kind |-> "zero", num |-> 0, root |-> 0]
     ELSE IF c = 0 THEN [kind |-> "raises", num |-> 0, root |-> 0]
     ELSE IF variance_is_zero(xs, c) THEN [kind |-> "zero", num |-> 0, root |-> 0]
     ELSE [kind |-> "finite",
           num |-> IF c > 0 THEN 50000 * S - n * c ELSE n * c - 50000 * S,
           root |-> n * Q - S * S]

\* max(0, min(1, metrics.sharpe_ratio / 2))
sharpe_score(portfolio) ==
  LET sharpe == sharpe_ratio(portfolio)
      root == isqrt(sharpe.root * 10000)
  IN IF sharpe.kind # "finite" THEN 0
     ELSE IF sharpe.num <= 0 THEN 0
     ELSE IF sharpe.num >= 20 * (root + 1) THEN ScoreScale
     ELSE Min(ScoreScale, (sharpe.num * ScoreScale) \div (20 * root))

\* max(0, min(1, (profit_factor - 1) / 2)), profit_factor = inf when gross_loss = 0
profit_factor_score(portfolio) ==
  LET pf == profit_factor(portfolio)
  IN IF ~pf.infinite
       THEN Max(0, Min(ScoreScale, ((pf.num - pf.den) * ScoreScale) \div (2 * pf.den)))
       ELSE ScoreScale

\* The capital series _calculate_max_drawdown walks: the recorded snapshots,
\* or, when there are none, initial_capital followed by the running sum of
\* the closed trades' pnl (closed_positions is in exit-time order).
RECURSIVE running_capital(_, _)
running_capital(capital, xs) ==
  IF xs = <<>> THEN <<>>
  ELSE <<capital + Head(xs)>> \o running_capital(capital + Head(xs), Tail(xs))

drawdown_series(history, portfolio) ==
  IF history # <<>> THEN history
  ELSE <<portfolio.initial_capital>>
         \o running_capital(portfolio.initial_capital, trade_pnls(portfolio))

RECURSIVE drawdown_walk(_, _, _)
\* max_dd over the rest of the series, in units of 1/ScoreScale
drawdown_walk(series, peak, max_dd) ==
  IF series = <<>> THEN max_dd
  ELSE LET capital == Head(series)
           pk == IF capital > peak THEN capital ELSE peak
           drawdown == IF pk > 0 THEN ((pk - capital) * ScoreScale) \div pk ELSE 0
       IN drawdown_walk(Tail(series), pk, Max(max_dd, drawdown))

\* _calculate_max_drawdown always rebuilding the series from the closed trades.
max_drawdown_trades_only(history, portfolio) ==
  LET series == drawdown_series(<<>>, portfolio)
  IN IF Len(series) < 2 THEN 0 ELSE drawdown_walk(series, series[1], 0)

\* PerformanceTracker._calculate_max_drawdown, as a fraction (not times 100)
max_drawdown(history, portfolio) ==
  LET series == drawdown_series(history, portfolio)
  IN IF Len(series) < 2 THEN 0 ELSE drawdown_walk(series, series[1], 0)

\* The StrategyMetrics record calculate_metrics returns, in the fields read
\* below: the defaults when there are no closed trades; raises is the
\* ZeroDivisionError of total_return / initial_capital.
metrics_of(history, portfolio) ==
  LET n == Len(portfolio.closed_positions)
  IN IF n = 0
       THEN [ strategy_name |-> portfolio.strategy_name,
              current_capital |-> portfolio.current_capital,
              raises |-> FALSE,
              total_trades |-> 0, winning_trades |-> 0, losing_trades |-> 0,
              max_drawdown |-> 0,
              sharpe_ratio |-> [kind |-> "zero", num |-> 0, root |-> 0],
              win_rate |-> 0,
              profit_factor |-> [infinite |-> FALSE, num |-> 0, den |-> 1],
              sortino_ratio |-> [kind |-> "zero",
                                 downside_variance |-> [num |-> 0, den |-> 1],
                                 num |-> 0, root |-> 0] ]
       ELSE [ strategy_name |-> portfolio.strategy_name,
              current_capital |-> portfolio.current_capital,
              raises |-> portfolio.initial_capital = 0,
              total_trades |-> n,
              winning_trades |-> winning_trades(portfolio),
              losing_trades |-> losing_trades(portfolio),
              max_drawdown |-> max_drawdown(history, portfolio),
              sharpe_ratio |-> sharpe_ratio(portfolio),
              win_rate |-> (winning_trades(portfolio) * ScoreScale) \div n,
              profit_factor |-> profit_factor(portfolio),
              sortino_ratio |-> sortino_ratio(portfolio) ]

\* PerformanceTracker.calculate_metrics(portfolio of strategy_name); the
\* record returned is also the one cached in _metrics[strategy_name].
calculate_metrics(strategy_name) ==
  /\ last' = [op |-> "calculate_metrics", id |-> 0, log |-> "",
              result |-> <<metrics_of(capital_history[strategy_name],
                                      portfolios[strategy_name])>>]
  /\ UNCHANGED <<orchestrator, config, portfolios, daily_pnl, next_id, allocator_vars>>

\* -------------------------------------------------------------- allocator

\* metrics.win_rate / 100, with win_rate = winning_trades / total_trades * 100
win_rate_score(portfolio) ==
  IF portfolio.closed_positions = <<>> THEN 0
  ELSE (winning_trades(portfolio) * ScoreScale) \div Len(portfolio.closed_positions)

\* min(1, metrics.max_drawdown / 20), max_drawdown in per cent
drawdown_penalty(history, portfolio) ==
  Min(ScoreScale, 5 * max_drawdown(history, portfolio))

\* calculate_strategy_score returning the weighted difference as it is.
calculate_strategy_score_unfloored(history, portfolio) ==
  LET n == Len(portfolio.closed_positions)
      performance10 == 4 * sharpe_score(portfolio) + 3 * win_rate_score(portfolio)
                         + 3 * profit_factor_score(portfolio)
      score == (config.performance_weight * performance10
                  - config.risk_weight * 10 * drawdown_penalty(history, portfolio)) \div 100
  IN IF n < 3 THEN 0 ELSE score

\* CapitalAllocator.calculate_strategy_score on calculate_metrics(portfolio);
\* performance10 is 10 * performance_score, the weights are in tenths
calculate_strategy_score(history, portfolio) ==
  LET n == Len(portfolio.closed_positions)
      performance10 == 4 * sharpe_score(portfolio) + 3 * win_rate_score(portfolio)
                         + 3 * profit_factor_score(portfolio)
      score == (config.performance_weight * performance10
                  - config.risk_weight * 10 * drawdown_penalty(history, portfolio)) \div 100
  IN IF n < 3 THEN 0 ELSE Max(0, score)

RECURSIVE insert_by_score(_, _)
\* r placed after every entry whose score is >= r.score
insert_by_score(sorted, r) ==
  IF sorted = <<>> THEN <<r>>
  ELSE IF Head(sorted).score >= r.score
    THEN <<Head(sorted)>> \o insert_by_score(Tail(sorted), r)
  ELSE <<r>> \o sorted

RECURSIVE sort_by_score(_)
\* rankings.sort(key=lambda x: x[1], reverse=True): stable, descending
sort_by_score(rs) ==
  IF rs = <<>> THEN <<>>
  ELSE insert_by_score(sort_by_score(SubSeq(rs, 1, Len(rs) - 1)), rs[Len(rs)])

\* CapitalAllocator.rank_strategies
rank_strategies(pfs, histories) ==
  sort_by_score(
    [i \in 1..Len(PortfolioOrder) |->
       [ name |-> PortfolioOrder[i],
         score |-> calculate_strategy_score(histories[PortfolioOrder[i]],
                                            pfs[PortfolioOrder[i]]),
         total_trades |-> Len(pfs[PortfolioOrder[i]].closed_positions) ]])

allocation_reason(score, total_trades) ==
  IF score * 2 >= ScoreScale THEN "high_performer"
  ELSE IF score * 4 >= ScoreScale THEN "moderate_performer"
  ELSE IF total_trades < 5 THEN "insufficient_history"
  ELSE "low_performer"

\* calculate_allocations returning its results without the normalisation.
normalize_allocations_skipped(results, total_capital) == results

\* the normalisation that ends calculate_allocations
normalize_allocations(results, total_capital) ==
  LET total_allocated == SumSeq([i \in 1..Len(results) |-> results[i].new_allocation])
  IN IF total_allocated > total_capital
       THEN [i \in 1..Len(results) |->
               LET scaled == (results[i].new_allocation * total_capital) \div total_allocated
               IN [results[i] EXCEPT !.new_allocation = scaled,
                                     !.allocation_change = scaled - results[i].current_capital]]
       ELSE results

\* Qualification by score alone, without the exception for short histories.
qualified_of_scored(rankings) == SelectSeq(rankings, LAMBDA r : r.score > 0)

\* Qualification with the history exception up to and including the threshold.
qualified_of_inclusive(rankings) ==
  SelectSeq(rankings,
            LAMBDA r : r.score > 0 \/ r.total_trades <= config.min_trades_for_ranking)

\* qualified = [... if score > 0 or metrics.total_trades < min_trades_for_ranking]
qualified_of(rankings) ==
  SelectSeq(rankings,
            LAMBDA r : r.score > 0 \/ r.total_trades < config.min_trades_for_ranking)

\* The results for the qualified strategies without the cap at 50% of the
\* total capital.
proposed_allocations_uncapped(rankings, pfs) ==
  LET total_capital == config.max_total_capital
      qualified == qualified_of(rankings)
      total_score == SumSeq([i \in 1..Len(qualified) |-> qualified[i].score])
      min_allocation == total_capital \div (Len(qualified) * 10)
      base_allocation(r) ==
        IF total_score > 0 THEN (r.score * total_capital) \div total_score
        ELSE total_capital \div Len(qualified)
      capped(r) == Max(min_allocation, base_allocation(r))
  IN [i \in 1..Len(qualified) |->
        [ strategy_name |-> qualified[i].name,
          current_capital |-> pfs[qualified[i].name].current_capital,
          new_allocation |-> capped(qualified[i]),
          allocation_change |-> capped(qualified[i])
                                  - pfs[qualified[i].name].current_capital,
          rank |-> i,
          score |-> qualified[i].score,
          reason |-> allocation_reason(qualified[i].score,
                                       qualified[i].total_trades) ]]

\* The results calculate_allocations builds for the qualified strategies,
\* before its normalisation; money is rounded down to the unit.
proposed_allocations(rankings, pfs) ==
  LET total_capital == config.max_total_capital
      qualified == qualified_of(rankings)
      total_score == SumSeq([i \in 1..Len(qualified) |-> qualified[i].score])
      min_allocation == total_capital \div (Len(qualified) * 10)
      base_allocation(r) ==
        IF total_score > 0 THEN (r.score * total_capital) \div total_score
        ELSE total_capital \div Len(qualified)
      capped(r) == Min(Max(min_allocation, base_allocation(r)), total_capital \div 2)
  IN [i \in 1..Len(qualified) |->
        [ strategy_name |-> qualified[i].name,
          current_capital |-> pfs[qualified[i].name].current_capital,
          new_allocation |-> capped(qualified[i]),
          allocation_change |-> capped(qualified[i])
                                  - pfs[qualified[i].name].current_capital,
          rank |-> i,
          score |-> qualified[i].score,
          reason |-> allocation_reason(qualified[i].score,
                                       qualified[i].total_trades) ]]

\* CapitalAllocator.calculate_allocations from `rankings = self.rank_strategies()` on
allocations_of(rankings, pfs) ==
  LET total_capital == config.max_total_capital
  IN IF rankings = <<>> THEN <<>>
     ELSE IF qualified_of(rankings) = <<>>
       THEN [i \in 1..Len(rankings) |->
               [ strategy_name |-> rankings[i].name,
                 current_capital |-> pfs[rankings[i].name].current_capital,
                 new_allocation |-> total_capital \div Len(rankings),
                 allocation_change |-> (total_capital \div Len(rankings))
                                         - pfs[rankings[i].name].current_capital,
                 rank |-> i,
                 score |-> rankings[i].score,
                 reason |-> "equal_allocation_no_qualified" ]]
     ELSE normalize_allocations(proposed_allocations(rankings, pfs), total_capital)

\* CapitalAllocator.calculate_allocations
calculate_allocations(pfs, histories) ==
  allocations_of(rank_strategies(pfs, histories), pfs)

\* should_rebalance with a strict comparison of the elapsed time.
should_rebalance_strict ==
  IF last_rebalance = NoValue THEN TRUE
  ELSE now - last_rebalance > config.rebalance_interval_hours

\* CapitalAllocator.should_rebalance
should_rebalance ==
  IF last_rebalance = NoValue THEN TRUE
  ELSE now - last_rebalance >= config.rebalance_interval_hours

\* A rebalance that overwrites current_capital and keeps the old baseline.
apply_allocations_keep_baseline(pfs, allocations) ==
  [s \in DOMAIN pfs |->
     IF \E i \in DOMAIN allocations : allocations[i].strategy_name = s
       THEN [pfs[s] EXCEPT !.current_capital =
               allocations[CHOOSE i \in DOMAIN allocations :
                             allocations[i].strategy_name = s].new_allocation]
       ELSE pfs[s]]

\* A rebalance that re-creates every allocated portfolio with its new capital.
apply_allocations_reset(pfs, allocations) ==
  [s \in DOMAIN pfs |->
     IF \E i \in DOMAIN allocations : allocations[i].strategy_name = s
       THEN initialize_portfolio(
              s, allocations[CHOOSE i \in DOMAIN allocations :
                               allocations[i].strategy_name = s].new_allocation)
       ELSE pfs[s]]

RECURSIVE apply_allocations(_, _)
\* the loop of rebalance over the allocations
apply_allocations(pfs, allocations) ==
  IF allocations = <<>> THEN pfs
  ELSE LET alloc == Head(allocations)
       IN apply_allocations(
            IF alloc.strategy_name \in DOMAIN pfs
              THEN [pfs EXCEPT ![alloc.strategy_name].current_capital = alloc.new_allocation,
                               ![alloc.strategy_name].initial_capital = alloc.new_allocation]
              ELSE pfs,
            Tail(allocations))

\* CapitalAllocator.rebalance
rebalance ==
  IF ~should_rebalance
    THEN /\ last' = [op |-> "rebalance", id |-> 0, log |-> "Rebalance not due yet",
                     result |-> <<>>]
         /\ UNCHANGED <<orchestrator, config, portfolios, daily_pnl, next_id, allocator_vars>>
    ELSE LET allocations == calculate_allocations(portfolios, capital_history)
         IN /\ Len(allocation_history) < MaxRebalances
            /\ portfolios' = apply_allocations(portfolios, allocations)
            /\ last_rebalance' = now
            /\ allocation_history' =
                 Append(allocation_history, [timestamp |-> now, allocations |-> allocations])
            /\ last' = [op |-> "rebalance", id |-> 0,
                        log |-> IF allocations = <<>> THEN "" ELSE "Capital reallocated",
                        result |-> allocations]
            /\ UNCHANGED <<orchestrator, config, daily_pnl, next_id, now, capital_history>>

\* The clock (datetime.now) advances by one hour.  Only differences between
\* the clock and _last_rebalance are read, so the clock is started at 0 and
\* time is counted from the first rebalance.
Tick ==
  /\ last_rebalance # NoValue
  /\ now < MaxTime
  /\ now' = now + 1
  /\ last' = [op |-> "Tick", id |-> 0, log |-> "", result |-> <<>>]
  /\ UNCHANGED <<orchestrator, config, portfolios, daily_pnl, next_id, last_rebalance,
                 allocation_history, capital_history>>

Next ==
  \/ \E signal \in Signals, market_price \in EntryPrices : execute_signal(signal, market_price)
  \/ \E position_id \in PositionIds, exit_price \in SettlePrices :
       close_position(position_id, exit_price, "signal")
  \/ \E c \in ExitChecks : process_exits(c.strategy, c.market_data, c.view)
  \/ rebalance
  \/ Tick

Spec == Init /\ [][Next]_vars

\* The ledger alone: only execute_signal and close_position are called.
LedgerNext ==
  \/ \E signal \in Signals, market_price \in EntryPrices : execute_signal(signal, market_price)
  \/ \E position_id \in PositionIds, exit_price \in SettlePrices :
       close_position(position_id, exit_price, "signal")

LedgerSpec == Init /\ [][LedgerNext]_vars

\* The ledger under the cycle's two ledger steps: signals executed and exits
\* checked, for every strategy and snapshot.
ExitsNext ==
  \/ \E signal \in Signals, market_price \in EntryPrices : execute_signal(signal, market_price)
  \/ \E c \in ExitChecks : process_exits(c.strategy, c.market_data, c.view)

ExitsSpec == Init /\ [][ExitsNext]_vars

\* ------------------------------------------------------------- the cycle

\* MeanReversionStrategy's configuration (config.get): the thresholds and the
\* exit target in price units, the sizes in money units.  With prices in
\* steps of 1/PriceScale the thresholds are 2/3 and 1/3, the nearest to the
\* defaults 0.95 and 0.05 at which a position can be bought (at a price of 0
\* the quantity is 0).
extreme_threshold == PriceScale - 1
min_threshold == 1
base_position_size == 3
strategy_max_position_size == 6

\* MeanReversionStrategy._calculate_position_size:
\* min(base * (1 + 2 * |price - 0.5|), max_position_size)
mean_reversion_position_size(price) ==
  LET twice == IF 2 * price >= PriceScale THEN 2 * price - PriceScale
               ELSE PriceScale - 2 * price
  IN Min((base_position_size * (PriceScale + twice)) \div PriceScale,
         strategy_max_position_size)

\* MeanReversionStrategy.analyze: the signal, or the empty list for None
mean_reversion_analyze(market_data) ==
  IF market_data.yes_price >= extreme_threshold
    THEN <<signal_of("MeanReversion", market_data.market_id, "no",
                     mean_reversion_position_size(market_data.yes_price))>>
  ELSE IF market_data.yes_price <= min_threshold
    THEN <<signal_of("MeanReversion", market_data.market_id, "yes",
                     mean_reversion_position_size(market_data.yes_price))>>
  ELSE <<>>

\* The snapshots of the one market a scan returns.
CycleSnapshots ==
  { [market_id |-> "MKT-A", yes_price |-> y, close_in_hours |-> h] :
      y \in 0..PriceScale, h \in CloseInHours }

\* Orchestrator._process_cycle with the MeanReversion strategy enabled, on
\* the signals of a scan of one market: the signal analyze gave is executed
\* at the market's yes price, check_exits runs on the same snapshot with a
\* capital snapshot for every position closed, and a due rebalance is made.
process_cycle(market_data) ==
  LET signals == mean_reversion_analyze(market_data)
      ledger == [portfolios |-> portfolios, daily_pnl |-> daily_pnl, next_id |-> next_id]
  IN \E opened \in { IF signals = <<>>
                       THEN [portfolios |-> portfolios, daily_pnl |-> daily_pnl,
                             next_id |-> next_id, result |-> <<>>, log |-> ""]
                       ELSE execute_in(ledger, signals[1], market_data.yes_price) } :
     \E exited \in { check_exits([portfolios |-> opened.portfolios,
                                  daily_pnl |-> opened.daily_pnl],
                                 "MeanReversion", market_data, NoHistory) } :
     \E history \in { record_capital_snapshots(
                        capital_history, "MeanReversion",
                        exited.portfolios["MeanReversion"].current_capital,
                        Len(exited.closed)) } :
     \E allocations \in { IF should_rebalance
                            THEN calculate_allocations(exited.portfolios, history)
                            ELSE <<>> } :
       /\ opened.result # <<>> => next_id <= MaxPositions
       /\ portfolios' = IF should_rebalance
                          THEN apply_allocations(exited.portfolios, allocations)
                          ELSE exited.portfolios
       /\ daily_pnl' = exited.daily_pnl
       /\ next_id' = opened.next_id
       /\ capital_history' = history
       /\ last_rebalance' = IF should_rebalance THEN now ELSE last_rebalance
       /\ allocation_history' =
            IF should_rebalance
              THEN Append(allocation_history,
                          [timestamp |-> now, allocations |-> allocations])
              ELSE allocation_history
       /\ last' = [op |-> "process_cycle",
                   id |-> IF opened.result = <<>> THEN 0 ELSE opened.result[1].id,
                   log |-> opened.log, result |-> exited.closed]
       /\ UNCHANGED <<config, now>>

\* Orchestrator.run_once: one scan and its cycle, outside the loop of run()
run_once(market_data) ==
  /\ process_cycle(market_data)
  /\ UNCHANGED orchestrator

CycleNext ==
  \/ \E market_data \in CycleSnapshots : run_once(market_data)
  \/ Tick

CycleSpec == Init /\ [][CycleNext]_vars

\* ------------------------------------------------------------ the run loop

\* Number of shutdown() calls (SIGTERM and SIGINT deliveries).
MaxShutdowns == 2

\* The ledger, the tracker and the allocator: what a cycle writes.
trading_vars == <<portfolios, daily_pnl, next_id, last_rebalance,
                  allocation_history, capital_history>>

\* run()'s finally clause: cleanup() is called and waits for the client to
\* close.
cleanup(orch) == [orch EXCEPT !.cleanups = @ + 1, !.task = "close"]

\* shutdown() with the scanner's flag cleared, the trading loop's flag kept
shutdown_scanner_only(orch) ==
  [orch EXCEPT !.scanning = FALSE, !.shutdowns = @ + 1]

\* Orchestrator.shutdown and MarketScanner.stop: both flags are cleared.
shutdown_in(orch) ==
  [orch EXCEPT !.running = FALSE, !.scanning = FALSE, !.shutdowns = @ + 1]

\* Orchestrator.run up to its first await: the flag is set, the signal
\* handlers are installed, run_continuous sets the scanner's flag, enters its
\* loop and awaits the first scan.
run ==
  /\ orchestrator.task = "idle"
  /\ orchestrator' = [orchestrator EXCEPT !.running = TRUE, !.scanning = TRUE,
                                          !.task = "scan"]
  /\ last' = [op |-> "run", id |-> 0, log |-> "Starting trading loop...", result |-> <<>>]
  /\ UNCHANGED <<config, now, trading_vars>>

\* The scan the scanner awaited completes and run_continuous yields its
\* signals; nothing is awaited until the scanner sleeps.  The loop of run()
\* breaks when the orchestrator's flag is down (the signals are dropped and
\* the finally clause runs), and processes the cycle otherwise.
scan_completes(market_data) ==
  /\ orchestrator.task = "scan"
  /\ IF ~orchestrator.running
       THEN /\ orchestrator' = cleanup(orchestrator)
            /\ last' = [op |-> "break", id |-> 0, log |-> "Cleaning up...",
                        result |-> mean_reversion_analyze(market_data)]
            /\ UNCHANGED <<config, now, trading_vars>>
       ELSE /\ process_cycle(market_data)
            /\ orchestrator' = [orchestrator EXCEPT !.task = "sleep"]

\* The scan raises: run_continuous logs the error and backs off for 5 s.
scan_fails ==
  /\ orchestrator.task = "scan"
  /\ orchestrator' = [orchestrator EXCEPT !.task = "backoff"]
  /\ last' = [op |-> "scan_fails", id |-> 0, log |-> "Scanner error", result |-> <<>>]
  /\ UNCHANGED <<config, now, trading_vars>>

\* The scanner's sleep ends: the next scan starts while the scanner's flag is
\* up; otherwise run_continuous returns, the loop of run() ends and the
\* finally clause runs.
sleep_completes ==
  /\ orchestrator.task \in {"sleep", "backoff"}
  /\ orchestrator' = IF orchestrator.scanning
                       THEN [orchestrator EXCEPT !.task = "scan"]
                       ELSE cleanup(orchestrator)
  /\ last' = [op |-> "sleep_completes", id |-> 0,
              log |-> IF orchestrator.scanning THEN "Starting market scan"
                      ELSE "Cleaning up...",
              result |-> <<>>]
  /\ UNCHANGED <<config, now, trading_vars>>

\* A signal arrives while the task of run() is suspended in an await: the
\* handler installed by run() runs shutdown().
shutdown ==
  /\ orchestrator.task \in {"scan", "sleep", "backoff", "close"}
  /\ orchestrator.shutdowns < MaxShutdowns
  /\ orchestrator' = shutdown_in(orchestrator)
  /\ last' = [op |-> "shutdown", id |-> 0, log |-> "Shutdown requested...", result |-> <<>>]
  /\ UNCHANGED <<config, now, trading_vars>>

\* cleanup()'s await of the client's close returns, and run() returns.
cleanup_completes ==
  /\ orchestrator.task = "close"
  /\ orchestrator' = [orchestrator EXCEPT !.task = "done"]
  /\ last' = [op |-> "cleanup_completes", id |-> 0, log |-> "Cleanup complete",
              result |-> <<>>]
  /\ UNCHANGED <<config, now, trading_vars>>

\* The scan in flight ends.  scan_completes and scan_fails are the steps of
\* the loop that leave "scan", and scan_fails is enabled whenever a scan is
\* in flight, so this is the step "scan_completes or scan_fails" told by the
\* task's position alone.
Tasks == {"idle", "scan", "sleep", "backoff", "close", "done"}
scan_ends ==
  /\ orchestrator.task = "scan"
  /\ \E task \in Tasks \ {"scan"}, cleanups \in {orchestrator.cleanups, orchestrator.cleanups + 1} :
       orchestrator' = [orchestrator EXCEPT !.task = task, !.cleanups = cleanups]

RunNext ==
  \/ run
  \/ \E market_data \in CycleSnapshots : scan_completes(market_data)
  \/ scan_fails
  \/ sleep_completes
  \/ shutdown
  \/ cleanup_completes
  \/ Tick

RunSpec == Init /\ [][RunNext]_vars

\* The event loop resumes a task whose await has completed: a scan in flight
\* ends, a sleep ends, the client closes.  Signals may or may not arrive.
RunFairSpec ==
  /\ RunSpec
  /\ WF_orchestrator(scan_ends)
  /\ WF_vars(sleep_completes)
  /\ WF_vars(cleanup_completes)

\* The ledger with calculate_metrics, a public operation of the tracker,
\* called on any portfolio at any time.
\* the yes prices a position can be closed at, the entry price included
ExitPrices == 0..PriceScale

MetricsNext ==
  \/ \E signal \in Signals, market_price \in EntryPrices : execute_signal(signal, market_price)
  \/ \E position_id \in PositionIds, exit_price \in ExitPrices :
       close_position(position_id, exit_price, "signal")
  \/ \E strategy_name \in Strategies : calculate_metrics(strategy_name)

MetricsSpec == Init /\ [][MetricsNext]_vars

\* PerformanceTracker.record_capital_snapshot(strategy_name, capital)
record_capital_snapshot(strategy_name, capital) ==
  /\ capital_history' = record_capital_snapshots(capital_history, strategy_name, capital, 1)
  /\ last' = [op |-> "record_capital_snapshot", id |-> 0, log |-> "", result |-> <<>>]
  /\ UNCHANGED <<orchestrator, config, portfolios, daily_pnl, next_id, now, last_rebalance,
                 allocation_history>>

\* The ledger of one strategy with capital snapshots recorded and the
\* metrics computed at any time.
MaxSnapshots == 3
SnapshotCapitals == {0, 2, 4}
DrawdownStrategy == "MeanReversion"

DrawdownNext ==
  \/ \E signal \in {g \in Signals : /\ g.strategy_name = DrawdownStrategy
                                      /\ g.market_id = "MKT-A"},
         market_price \in EntryPrices : execute_signal(signal, market_price)
  \/ \E position_id \in PositionIds, exit_price \in ExitPrices :
       close_position(position_id, exit_price, "signal")
  \/ \E capital \in SnapshotCapitals :
       /\ Len(capital_history[DrawdownStrategy]) < MaxSnapshots
       /\ record_capital_snapshot(DrawdownStrategy, capital)
  \/ calculate_metrics(DrawdownStrategy)

DrawdownSpec == Init /\ [][DrawdownNext]_vars

\* The metrics of a portfolio after a run of trades: each trade opens two
\* contracts at a yes price of 1 and is closed at the drawn exit price before
\* the next is opened.
MaxTrades == 3

\* the initial capital of a strategy and the number of trades a strategy is
\* ranked from are inputs (config.yaml)
TradeCapitals == {4, 80}
TradeRankingFloors == {3, 5}
\* max_total_capital with max_exposure_pct: 3% of 240, and 20% of 120
TradeLimits == {<<240, 3>>, <<120, 20>>}
TradeConfigs ==
  { [c EXCEPT !.initial_capital = k, !.min_trades_for_ranking = t,
              !.max_total_capital = l[1], !.max_exposure_pct = l[2]] :
      c \in Configs, k \in TradeCapitals, t \in TradeRankingFloors, l \in TradeLimits }
\* a signal of another strategy, executed after the run of trades or not
OtherSignal == signal_of("Momentum", "MKT-A", "yes", 5)
TradeSignal == signal_of(DrawdownStrategy, "MKT-A", "yes", 2)

RECURSIVE trade_run(_, _)
\* execute_signal then close_position, for every exit price in turn
trade_run(ledger, exits) ==
  IF exits = <<>> THEN ledger
  ELSE LET opened == execute_in(ledger, TradeSignal, 1)
           closed == close_in([portfolios |-> opened.portfolios,
                               daily_pnl |-> opened.daily_pnl],
                              opened.next_id - 1, Head(exits), "signal")
       IN IF opened.result = <<>> THEN ledger
          ELSE trade_run([portfolios |-> closed.portfolios,
                          daily_pnl |-> closed.daily_pnl,
                          next_id |-> opened.next_id], Tail(exits))

TradeInit ==
  /\ orchestrator = NotStarted
  /\ config \in TradeConfigs
  /\ \E n \in 0..MaxTrades :
       \E exits \in [1..n -> ExitPrices], other \in BOOLEAN :
         LET traded == trade_run(
                      [portfolios |-> [s \in Strategies |->
                                         initialize_portfolio(s, config.initial_capital)],
                       daily_pnl |-> 0, next_id |-> 1], exits)
             ledger == IF other THEN execute_in(traded, OtherSignal, 1) ELSE traded
         IN /\ portfolios = ledger.portfolios
            /\ daily_pnl = ledger.daily_pnl
            /\ next_id = ledger.next_id
  /\ last = [op |-> "init", id |-> 0, log |-> "", result |-> <<>>]
  /\ now = 0
  /\ last_rebalance = NoValue
  /\ allocation_history = <<>>
  /\ capital_history = [s \in Strategies |-> <<>>]

\* CapitalAllocator.rank_strategies() on the portfolios as they are
rank_strategies_step ==
  /\ last' = [op |-> "rank_strategies", id |-> 0, log |-> "",
              result |-> rank_strategies(portfolios, capital_history)]
  /\ UNCHANGED <<orchestrator, config, portfolios, daily_pnl, next_id, allocator_vars>>

TradeNext ==
  \/ calculate_metrics(DrawdownStrategy)
  \/ rank_strategies_step
  \/ rebalance

TradeSpec == TradeInit /\ [][TradeNext]_vars

\* ------------------------------------------- calculate_allocations alone

\* The (score, total_trades) pairs rank_strategies can report for a strategy:
\* a score above 0 needs at least 3 trades.
ScoreInputs ==
  { [score |-> 0, total_trades |-> 2],
    [score |-> 0, total_trades |-> 5],
    [score |-> ScoreScale \div 10, total_trades |-> 3],
    [score |-> ScoreScale \div 10, total_trades |-> 5],
    [score |-> (3 * ScoreScale) \div 10, total_trades |-> 5],
    [score |-> (5 * ScoreScale) \div 10, total_trades |-> 5],
    [score |-> (6 * ScoreScale) \div 10, total_trades |-> 5] }

\* The configuration of the allocator runs: 200 dollars of total capital.
AllocatorConfigs ==
  { [ max_total_capital |-> 200 * PriceScale, max_position_size |-> 10 * PriceScale,
      max_daily_loss |-> 20 * PriceScale, max_concurrent_positions |-> 10,
      max_exposure_pct |-> 20, initial_capital |-> 50 * PriceScale,
      min_trades_for_ranking |-> 5, rebalance_interval_hours |-> 24,
      performance_weight |-> 7, risk_weight |-> 3 ] }

\* calculate_allocations has just got `rankings` from rank_strategies.
AllocatorInit ==
  /\ orchestrator = NotStarted
  /\ config \in AllocatorConfigs
  /\ portfolios = [s \in Strategies |-> initialize_portfolio(s, config.initial_capital)]
  /\ daily_pnl = 0
  /\ next_id = 1
  /\ \E scored \in [Strategies -> ScoreInputs] :
       last = [op |-> "rank_strategies", id |-> 0, log |-> "",
               result |-> sort_by_score(
                            [i \in 1..Len(PortfolioOrder) |->
                               [ name |-> PortfolioOrder[i],
                                 score |-> scored[PortfolioOrder[i]].score,
                                 total_trades |-> scored[PortfolioOrder[i]].total_trades ]])]
  /\ now = 0
  /\ last_rebalance = NoValue
  /\ allocation_history = <<>>
  /\ capital_history = [s \in Strategies |-> <<>>]

\* the rest of calculate_allocations, on the rankings held in last
calculate_allocations_step ==
  /\ last.op = "rank_strategies"
  /\ last' = [op |-> "calculate_allocations", id |-> 0, log |-> "",
              result |-> allocations_of(last.result, portfolios)]
  /\ UNCHANGED <<orchestrator, config, portfolios, daily_pnl, next_id, allocator_vars>>

AllocatorSpec == AllocatorInit /\ [][calculate_allocations_step]_vars

\* ------------------------------------------------------------- properties

Range(seq) == {seq[i] : i \in DOMAIN seq}

\* every position record a portfolio holds, open map and closed list
RecordsOf(portfolio) == Range(portfolio.positions) \cup Range(portfolio.closed_positions)
AllRecords == UNION {RecordsOf(portfolios[s]) : s \in Strategies}

IsOpenId(id) == \E r \in AllRecords : r.id = id /\ r.status = "open"
IsClosedId(id) == \E r \in AllRecords : r.id = id /\ r.status # "open"

RECURSIVE SumSet(_, _)
\* the sum of f[x] over the finite set S
SumSet(S, f) ==
  IF S = {} THEN 0
  ELSE LET x == CHOOSE x \in S : TRUE IN f[x] + SumSet(S \ {x}, f)

\* sum of entry_cost over the records of rs that are OPEN
OpenCost(rs) == SumSet({r \in rs : r.status = "open"}, [r \in rs |-> r.entry_cost])

\* how many times position id lies in a closed list
TimesClosed(id) ==
  SumSet(Strategies,
         [s \in Strategies |->
            Cardinality({i \in DOMAIN portfolios[s].closed_positions :
                           portfolios[s].closed_positions[i].id = id})])

\* C1: close_position on an id that is not OPEN (already closed, or never
\* created) returns None and changes no portfolio and not the running daily
\* P&L; no position lies in a closed list twice (its pnl is applied once).
C1_CloseNotOpenChangesNothing ==
  /\ [][\A id \in PositionIds, price \in SettlePrices :
          (close_position(id, price, "signal") /\ ~IsOpenId(id))
            => /\ last'.result = <<>>
               /\ last'.log = "Position not found"
               /\ UNCHANGED <<portfolios, daily_pnl>>]_vars
  /\ [](\A id \in PositionIds : TimesClosed(id) <= 1)

\* C1 witness: close_position was called on an id that was already closed.
C1_Witness ==
  /\ last.op = "close_position"
  /\ last.result = <<>>
  /\ IsClosedId(last.id)

\* C2: the entry cost of all OPEN positions of all portfolios together never
\* exceeds max_total_capital * max_exposure_pct.
C2_AggregateExposureCap ==
  OpenCost(AllRecords) * 100 <= config.max_total_capital * config.max_exposure_pct

\* C2 witness: two portfolios hold open positions and an execute was rejected
\* because it would exceed the aggregate cap.
C2_Witness ==
  /\ last.op = "execute_signal"
  /\ last.log = "Would exceed max exposure"
  /\ Cardinality({s \in Strategies : open_positions(portfolios[s]) # <<>>}) >= 2

\* C3: the number of OPEN positions of all portfolios together never exceeds
\* max_concurrent_positions.
C3_ConcurrentPositionsCap ==
  Cardinality({r \in AllRecords : r.status = "open"}) <= config.max_concurrent_positions

\* C3 witness: the cap is reached and an execute was rejected for it.
C3_Witness ==
  /\ last.op = "execute_signal"
  /\ last.log = "Max positions reached"
  /\ Cardinality({r \in AllRecords : r.status = "open"}) = config.max_concurrent_positions

\* the yes price, or its complement for side no
EffPrice(side, yes_price) == IF side = "yes" THEN yes_price ELSE PriceScale - yes_price

\* current_capital less the entry cost of the OPEN positions of strategy s
AvailableOf(pfs, s) ==
  pfs[s].current_capital
    - SumSet({r \in RecordsOf(pfs[s]) : r.status = "open"},
             [r \in RecordsOf(pfs[s]) |-> r.entry_cost])

OpenCount == Cardinality({r \in AllRecords : r.status = "open"})

\* the step is a call of execute_signal (every action records itself in last)
Executed == last'.op = "execute_signal"

\* the step is a call of execute_signal that returned a position
Opened == Executed /\ last'.result # <<>>

\* C4: no execute creates a position while the running daily P&L is strictly
\* below -max_daily_loss; at exactly -max_daily_loss the breaker does not
\* reject.
C4_DailyLossBreaker ==
  [][Executed
         => /\ daily_pnl < -config.max_daily_loss
                 => (last'.result = <<>> /\ portfolios' = portfolios)
            /\ daily_pnl = -config.max_daily_loss
                 => last'.log # "Daily loss limit reached"]_vars

\* C4 witness: an execute created a position with the running daily P&L at
\* exactly -max_daily_loss.
C4_Witness ==
  /\ last.op = "execute_signal"
  /\ last.result # <<>>
  /\ daily_pnl = -config.max_daily_loss

\* the breaker rejected an execute
C4_BreakerTripped ==
  /\ last.op = "execute_signal"
  /\ last.log = "Daily loss limit reached"
  /\ daily_pnl < -config.max_daily_loss

\* The rejection conditions of execute: unknown strategy, the five risk
\* checks, or a computed quantity <= 0.
Rejects(signal, market_price) ==
  IF signal.strategy_name \notin Strategies THEN TRUE
  ELSE \/ signal.size > AvailableOf(portfolios, signal.strategy_name)
       \/ signal.size > config.max_position_size
       \/ (OpenCost(AllRecords) + signal.size) * 100
            > config.max_total_capital * config.max_exposure_pct
       \/ OpenCount >= config.max_concurrent_positions
       \/ daily_pnl < -config.max_daily_loss
       \/ EffPrice(signal.side, market_price) <= 0
       \/ signal.size < EffPrice(signal.side, market_price)

\* C5: every rejected execute returns None, creates no position and leaves
\* every portfolio and the running daily P&L as they were.
C5_RejectedExecuteIsAtomic ==
  [][Executed
       => IF last'.result = <<>>
            THEN UNCHANGED <<portfolios, daily_pnl, next_id>>
            ELSE \A signal \in Signals, market_price \in EntryPrices :
                   execute_signal(signal, market_price) => ~Rejects(signal, market_price)]_vars

\* C5 witness: an execute that passed the risk checks was rejected for its
\* quantity, and one position is open.
C5_Witness ==
  /\ last.op = "execute_signal"
  /\ last.log = "Quantity too small"
  /\ last.result = <<>>
  /\ OpenCount >= 1

C7_AvailableCapital ==
  /\ \A s \in Strategies :
       /\ portfolios[s].current_capital = config.initial_capital
       /\ portfolios[s].initial_capital = config.initial_capital
       /\ available_capital(portfolios[s]) = config.initial_capital
       /\ portfolios[s].positions = <<>>
       /\ portfolios[s].closed_positions = <<>>
  /\ [](\A s \in Strategies :
          available_capital(portfolios[s]) = AvailableOf(portfolios, s))
  /\ [][Opened
            => \A s \in Strategies :
                 /\ portfolios'[s].current_capital = portfolios[s].current_capital
                 /\ available_capital(portfolios'[s])
                      = available_capital(portfolios[s])
                          - (IF s = last'.result[1].strategy_name
                               THEN last'.result[1].entry_cost ELSE 0)]_vars

\* C7 witness: after a close changed current_capital, an execute opened a
\* position that costs less than the portfolio's capital.
C7_Witness ==
  /\ last.op = "execute_signal"
  /\ last.result # <<>>
  /\ LET s == last.result[1].strategy_name
     IN /\ portfolios[s].closed_positions # <<>>
        /\ portfolios[s].current_capital # portfolios[s].initial_capital
        /\ available_capital(portfolios[s])
             = portfolios[s].current_capital - last.result[1].entry_cost
        /\ last.result[1].entry_cost > 0

\* C8: execute admits a position only when the requested size is at most the
\* portfolio's available_capital before admission; entry_cost <= size, so the
\* portfolio's available_capital is >= 0 right after a successful execute.
C8_AdmissionKeepsAvailableNonNegative ==
  [][Opened => \A signal \in Signals, market_price \in EntryPrices :
       execute_signal(signal, market_price)
         => /\ signal.size <= AvailableOf(portfolios, signal.strategy_name)
            /\ last'.result[1].entry_cost <= signal.size
            /\ AvailableOf(portfolios', signal.strategy_name) >= 0]_vars

\* C8 witness: a successful execute used up the portfolio's available capital.
C8_Witness ==
  /\ last.op = "execute_signal"
  /\ last.result # <<>>
  /\ AvailableOf(portfolios, last.result[1].strategy_name) = 0
  /\ Len(portfolios[last.result[1].strategy_name].positions) = 2

\* the sequence seq without the records of the given id
WithoutId(seq, id) == SelectSeq(seq, LAMBDA r : r.id # id)

\* C9: close on an OPEN id sets exit price (flipped for side no), exit_value
\* and status CLOSED, moves the position from its portfolio's open map to the
\* end of its closed list, adds pnl to that portfolio's current_capital and to
\* the running daily P&L, and changes no other portfolio or position.
C9_CloseEffect ==
  [][\A id \in PositionIds, exit_price \in SettlePrices :
       (close_position(id, exit_price, "signal") /\ IsOpenId(id))
         => LET before == CHOOSE r \in AllRecords : r.id = id /\ r.status = "open"
                name == before.strategy_name
                price == EffPrice(before.side, exit_price)
                gain == before.quantity * price - before.entry_cost
                after == [before EXCEPT !.exit_price = price,
                                        !.exit_value = before.quantity * price,
                                        !.status = "closed",
                                        !.close_reason = "signal"]
            IN /\ last'.result = <<after>>
               /\ before \in Range(portfolios[name].positions)
               /\ portfolios'[name].positions = WithoutId(portfolios[name].positions, id)
               /\ Len(portfolios'[name].positions) = Len(portfolios[name].positions) - 1
               /\ portfolios'[name].closed_positions
                    = Append(portfolios[name].closed_positions, after)
               /\ portfolios'[name].current_capital
                    = portfolios[name].current_capital + gain
               /\ portfolios'[name].initial_capital = portfolios[name].initial_capital
               /\ daily_pnl' = daily_pnl + gain
               /\ \A other \in Strategies \ {name} :
                    portfolios'[other] = portfolios[other]]_vars

\* C9 witness: a side-no position was closed at a profit while another
\* position stayed open.
C9_Witness ==
  /\ last.op = "close_position"
  /\ last.result # <<>>
  /\ last.result[1].side = "no"
  /\ last.result[1].exit_value > last.result[1].entry_cost
  /\ OpenCount >= 1

\* how many places (slots of open maps and closed lists) hold position id
Places(id) ==
  SumSet(Strategies,
         [s \in Strategies |->
            Cardinality({i \in DOMAIN portfolios[s].positions :
                           portfolios[s].positions[i].id = id})
            + Cardinality({i \in DOMAIN portfolios[s].closed_positions :
                             portfolios[s].closed_positions[i].id = id})])

IsPrefix(a, b) == Len(a) <= Len(b) /\ SubSeq(b, 1, Len(a)) = a

\* C10: every position created lies in exactly one place, the open map of its
\* own strategy with status OPEN and pnl 0 or that strategy's closed list with
\* a terminal status; it is never deleted and never reopened, and a closed
\* position never changes again.
C10_PositionLifecycle ==
  /\ [](\A id \in 1..(next_id - 1) :
          /\ Places(id) = 1
          /\ \A s \in Strategies :
               /\ \A r \in Range(portfolios[s].positions) :
                    r.strategy_name = s /\ r.status = "open" /\ pnl(r) = 0
               /\ \A r \in Range(portfolios[s].closed_positions) :
                    r.strategy_name = s /\ r.status \in {"closed", "expired"})
  /\ [][\A s \in Strategies :
          IsPrefix(portfolios[s].closed_positions, portfolios'[s].closed_positions)]_vars

\* C10 witness: after a rebalance, check_exits closed one position while
\* another one, closed earlier, lies in a closed list.
C10_Witness ==
  /\ allocation_history # <<>>
  /\ last.op = "check_exits"
  /\ last.result # <<>>
  /\ Cardinality({r \in AllRecords : r.status # "open"}) = 2

\* C11: an OPEN position whose market expires (a snapshot with
\* close_in_hours = 0 makes check_exits close it) gets status EXPIRED.
C11_ExpiryMarksExpired ==
  [][(last'.op = "check_exits" /\ last'.result # <<>>)
       => \A c \in ExitChecks :
            (c.market_data.close_in_hours = 0
               /\ process_exits(c.strategy, c.market_data, c.view))
              => \A i \in DOMAIN last'.result : last'.result[i].status = "expired"]_vars

\* no position of any portfolio has status EXPIRED
NoPositionExpired == \A r \in AllRecords : r.status # "expired"

\* the ledger as execute_in reads it
Ledger == [portfolios |-> portfolios, daily_pnl |-> daily_pnl, next_id |-> next_id]

\* execute(signal) then close(id): the final ledger and the two outcomes
ExecuteThenClose(signal, market_price, id, exit_price) ==
  LET e == execute_in(Ledger, signal, market_price)
      c == close_in([portfolios |-> e.portfolios, daily_pnl |-> e.daily_pnl],
                    id, exit_price, "signal")
  IN [ portfolios |-> c.portfolios, daily_pnl |-> c.daily_pnl, next_id |-> e.next_id,
       accepted |-> e.result # <<>>, closed |-> c.result # <<>> ]

\* close(id) then execute(signal): the final ledger and the two outcomes
CloseThenExecute(signal, market_price, id, exit_price) ==
  LET c == close_in([portfolios |-> portfolios, daily_pnl |-> daily_pnl],
                    id, exit_price, "signal")
      e == execute_in([portfolios |-> c.portfolios, daily_pnl |-> c.daily_pnl,
                       next_id |-> next_id], signal, market_price)
  IN [ portfolios |-> e.portfolios, daily_pnl |-> e.daily_pnl, next_id |-> e.next_id,
       accepted |-> e.result # <<>>, closed |-> c.result # <<>> ]

\* C12 as claimed: from any ledger state, for any signal and any OPEN id,
\* execute then close gives the same accept/reject outcomes and the same final
\* ledger as close then execute.
C12_ExecuteCloseCommute ==
  \A id \in PositionIds :
    IsOpenId(id) =>
      \A signal \in Signals, market_price \in EntryPrices, exit_price \in SettlePrices :
        ExecuteThenClose(signal, market_price, id, exit_price)
          = CloseThenExecute(signal, market_price, id, exit_price)

\* C12 amended: whenever execute has the same accept/reject outcome in both
\* orders, both orders close the position and end in the same ledger.
C12_CommuteWhenOutcomeAgrees ==
  \A id \in PositionIds :
    IsOpenId(id) =>
      \A signal \in Signals, market_price \in EntryPrices, exit_price \in SettlePrices :
        LET ec == ExecuteThenClose(signal, market_price, id, exit_price)
            ce == CloseThenExecute(signal, market_price, id, exit_price)
        IN /\ ec.closed /\ ce.closed
           /\ ec.accepted = ce.accepted => ec = ce

\* C12 witness: a position is open, the other order of some accepted execute
\* and a close of it at a loss is also accepted, and both end in the same
\* ledger with a changed capital.
C12_Witness ==
  \E id \in PositionIds :
    /\ IsOpenId(id)
    /\ \E signal \in Signals, market_price \in EntryPrices, exit_price \in SettlePrices :
         LET ec == ExecuteThenClose(signal, market_price, id, exit_price)
             ce == CloseThenExecute(signal, market_price, id, exit_price)
         IN /\ ec.accepted /\ ce.accepted
            /\ ec = ce
            /\ ec.daily_pnl < daily_pnl

\* the step from the rankings to the allocations calculate_allocations returns
Allocated == last.op = "rank_strategies" /\ last'.op = "calculate_allocations"

\* the sum of new_allocation over a list of results
TotalAllocated(results) ==
  SumSet(DOMAIN results, [i \in DOMAIN results |-> results[i].new_allocation])

\* the scores of a list of rankings or results, in order
ScoresOf(rs) == [i \in DOMAIN rs |-> rs[i].score]

\* C13: the new_allocation values calculate_allocations returns sum to at most
\* total_capital; when the clamped proposals sum to more, every allocation is
\* its proposal scaled by total_capital / sum, so that the sum is total_capital
\* (less the rounding of each allocation down to the money unit).
C13_AllocationsWithinTotal ==
  [][Allocated
       => LET total_capital == config.max_total_capital
              out == last'.result
              proposals == proposed_allocations(last.result, portfolios)
              proposed == TotalAllocated(proposals)
          IN /\ TotalAllocated(out) <= total_capital
             /\ (qualified_of(last.result) # <<>> /\ proposed > total_capital)
                  => /\ Len(out) = Len(proposals)
                     /\ \A i \in DOMAIN out :
                          out[i].new_allocation
                            = (proposals[i].new_allocation * total_capital) \div proposed
                     /\ TotalAllocated(out) > total_capital - Len(out)]_vars

\* C13 witness: two strategies capped at 50% and a third at the floor were
\* scaled down to the total capital.
C13_Witness ==
  /\ last.op = "calculate_allocations"
  /\ Len(last.result) = 3
  /\ last.result[1].score = last.result[2].score
  /\ last.result[1].score > 0
  /\ last.result[3].score = 0
  /\ last.result[1].new_allocation < config.max_total_capital \div 2
  /\ TotalAllocated(last.result) > config.max_total_capital - 3
  /\ TotalAllocated(last.result) <= config.max_total_capital

\* rankings with scores 0.6, 0.3 and 0.0, the third with 2 closed trades
ExampleRankings(rankings) ==
  /\ ScoresOf(rankings)
       = <<(6 * ScoreScale) \div 10, (3 * ScoreScale) \div 10, 0>>
  /\ rankings[3].total_trades = 2

\* C14 as claimed: with scores [0.6, 0.3, 0.0], the third strategy having 2
\* closed trades, and total_capital = 200, the third strategy is qualified and
\* the three allocations sum to 200.
C14_ExampleSumsToTotal ==
  [][(Allocated /\ ExampleRankings(last.result))
       => /\ Len(last'.result) = 3
          /\ last'.result[3].strategy_name = last.result[3].name
          /\ TotalAllocated(last'.result) = config.max_total_capital]_vars

\* C14 amended: in that example the third strategy is qualified, the first
\* allocation is capped at 100 (50% of 200), the second is 66.67 and the third
\* the floor 6.67: the allocations sum to 173.33, not to 200.
C14_ExampleSumsBelowTotal ==
  [][(Allocated /\ ExampleRankings(last.result))
       => LET total_capital == config.max_total_capital
              out == last'.result
          IN /\ Len(out) = 3
             /\ out[3].strategy_name = last.result[3].name
             /\ out[1].new_allocation = total_capital \div 2
             /\ out[2].new_allocation = (total_capital * 3) \div 9
             /\ out[3].new_allocation = total_capital \div 30
             /\ TotalAllocated(out) * 100 <= total_capital * 87
             /\ TotalAllocated(out) * 100 > total_capital * 86]_vars

\* C14 witness: the allocations of the example have been returned.
C14_Witness ==
  /\ last.op = "calculate_allocations"
  /\ config.max_total_capital = 200 * PriceScale
  /\ ScoresOf(last.result) = <<(6 * ScoreScale) \div 10, (3 * ScoreScale) \div 10, 0>>
  /\ last.result[3].reason = "insufficient_history"
  /\ TotalAllocated(last.result) < config.max_total_capital

\* the minimum allocation: 10% of an equal share among n qualified strategies
MinimumFloor(n) == config.max_total_capital \div (10 * n)

\* C15 as claimed: whenever a strategy qualifies, every new_allocation returned
\* lies within [minimum floor, 50% of total_capital], renormalised or not.
C15_AllocationBounds ==
  [][(Allocated /\ qualified_of(last.result) # <<>>)
       => \A i \in DOMAIN last'.result :
            /\ last'.result[i].new_allocation >= MinimumFloor(Len(last'.result))
            /\ last'.result[i].new_allocation <= config.max_total_capital \div 2]_vars

\* C15 amended: whenever a strategy qualifies, every proposal lies within
\* [minimum floor, 50% of total_capital] and every new_allocation returned is
\* at most 50% of total_capital; it is at least the minimum floor when no
\* renormalisation was applied, and at least the floor scaled by
\* total_capital / sum of the proposals when it was.
C15_AllocationBoundsBeforeScaling ==
  [][(Allocated /\ qualified_of(last.result) # <<>>)
       => LET total_capital == config.max_total_capital
              out == last'.result
              proposals == proposed_allocations(last.result, portfolios)
              proposed == TotalAllocated(proposals)
              floor == MinimumFloor(Len(out))
          IN \A i \in DOMAIN out :
               /\ proposals[i].new_allocation >= floor
               /\ proposals[i].new_allocation <= total_capital \div 2
               /\ out[i].new_allocation <= total_capital \div 2
               /\ proposed <= total_capital => out[i].new_allocation >= floor
               /\ proposed > total_capital
                    => out[i].new_allocation >= (floor * total_capital) \div proposed]_vars

\* C15 witness: a renormalisation has scaled the third allocation below the
\* minimum floor.
C15_Witness ==
  /\ last.op = "calculate_allocations"
  /\ Len(last.result) = 3
  /\ last.result[3].reason # "equal_allocation_no_qualified"
  /\ last.result[3].new_allocation < MinimumFloor(3)
  /\ last.result[3].new_allocation > 0

\* the rankings that qualify: score > 0 or fewer trades than min_trades_for_ranking
QualifiedNames(rankings) ==
  {rankings[i].name : i \in {j \in DOMAIN rankings :
      rankings[j].score > 0 \/ rankings[j].total_trades < config.min_trades_for_ranking}}

\* C16: a strategy gets a result as qualified iff its score > 0 or it has
\* fewer closed trades than min_trades_for_ranking; if none qualifies every
\* strategy gets total_capital / number of strategies with reason
\* "equal_allocation_no_qualified"; if some qualify and their scores sum to 0
\* each gets the equal split among the qualified (at most 50% of total_capital).
C16_Qualification ==
  [][Allocated
       => LET total_capital == config.max_total_capital
              rankings == last.result
              out == last'.result
              names == QualifiedNames(rankings)
              n == Cardinality(names)
          IN IF names = {}
               THEN /\ {out[i].strategy_name : i \in DOMAIN out} = Strategies
                    /\ Len(out) = Cardinality(Strategies)
                    /\ \A i \in DOMAIN out :
                         /\ out[i].new_allocation = total_capital \div Cardinality(Strategies)
                         /\ out[i].reason = "equal_allocation_no_qualified"
               ELSE /\ {out[i].strategy_name : i \in DOMAIN out} = names
                    /\ Len(out) = n
                    /\ \A i \in DOMAIN out : out[i].reason # "equal_allocation_no_qualified"
                    /\ (\A i \in DOMAIN out : out[i].score = 0)
                         => \A i \in DOMAIN out :
                              out[i].new_allocation
                                = Min(total_capital \div n, total_capital \div 2)]_vars

\* C16 witness: no strategy qualified and all three got the equal share.
C16_Witness ==
  /\ last.op = "calculate_allocations"
  /\ Len(last.result) = 3
  /\ \A i \in DOMAIN last.result :
       /\ last.result[i].reason = "equal_allocation_no_qualified"
       /\ last.result[i].new_allocation * 3 <= config.max_total_capital
       /\ last.result[i].new_allocation * 3 > config.max_total_capital - 3

\* one strategy alone qualified, by its short history, and got 50%
C16_SingleQualified ==
  /\ last.op = "calculate_allocations"
  /\ Len(last.result) = 1
  /\ last.result[1].score = 0
  /\ last.result[1].new_allocation = config.max_total_capital \div 2

\* a rebalance is due: never rebalanced, or the time since the last recorded
\* rebalance is at least the configured interval
Due ==
  \/ allocation_history = <<>>
  \/ now - allocation_history[Len(allocation_history)].timestamp
       >= config.rebalance_interval_hours

\* a call of rebalance
Rebalanced == last'.op = "rebalance"

\* C17: should_rebalance is true iff no rebalance has happened or the elapsed
\* time since the last one is at least the interval; a rebalance that is not
\* due returns the empty list and changes nothing; any two recorded rebalances
\* are at least one interval apart.
C17_RebalanceOnlyWhenDue ==
  /\ [](should_rebalance <=> Due)
  /\ [][Rebalanced
          => IF Due
               THEN Len(allocation_history') = Len(allocation_history) + 1
               ELSE /\ last'.result = <<>>
                    /\ UNCHANGED <<config, portfolios, daily_pnl, next_id,
                                   allocator_vars>>]_vars
  /\ [](\A i, j \in DOMAIN allocation_history :
          i < j => allocation_history[j].timestamp - allocation_history[i].timestamp
                     >= config.rebalance_interval_hours)

\* C17 witness: after two recorded rebalances a further call was not due.
C17_Witness ==
  /\ Len(allocation_history) = 2
  /\ last.op = "rebalance"
  /\ last.log = "Rebalance not due yet"
  /\ last.result = <<>>
  /\ ~Due

\* C18: a due rebalance sets current_capital and initial_capital of every
\* allocated portfolio to its new_allocation, leaves open and closed positions
\* untouched, records the time as the last rebalance and appends exactly one
\* history entry; no step modifies an earlier history entry.
C18_RebalanceEffect ==
  /\ [][(Rebalanced /\ Due)
          => LET out == last'.result
             IN /\ \A i \in DOMAIN out :
                     /\ portfolios'[out[i].strategy_name].current_capital
                          = out[i].new_allocation
                     /\ portfolios'[out[i].strategy_name].initial_capital
                          = out[i].new_allocation
                /\ \A s \in Strategies :
                     /\ portfolios'[s].positions = portfolios[s].positions
                     /\ portfolios'[s].closed_positions = portfolios[s].closed_positions
                     /\ (\A i \in DOMAIN out : out[i].strategy_name # s)
                          => portfolios'[s] = portfolios[s]
                /\ last_rebalance' = now
                /\ allocation_history'
                     = Append(allocation_history,
                              [timestamp |-> now, allocations |-> out])]_vars
  /\ [][IsPrefix(allocation_history, allocation_history')]_vars

\* C18 witness: a second rebalance has reset the capital and the baseline of a
\* portfolio that holds an open position and has a closed trade.
C18_Witness ==
  /\ Len(allocation_history) = 2
  /\ last.op = "rebalance"
  /\ last.result # <<>>
  /\ \E i \in DOMAIN last.result :
       LET portfolio == portfolios[last.result[i].strategy_name]
       IN /\ portfolio.positions # <<>>
          /\ portfolio.closed_positions # <<>>
          /\ portfolio.current_capital = last.result[i].new_allocation
          /\ portfolio.initial_capital = last.result[i].new_allocation
          /\ portfolio.initial_capital # config.initial_capital

\* the metrics record the last call of calculate_metrics returned
Reported == last.result[1]

\* the pnls of the closed trades the reported metrics were computed from
ReportedPnls ==
  LET trades == portfolios[Reported.strategy_name].closed_positions
  IN [i \in DOMAIN trades |-> pnl(trades[i])]

\* C19: for a portfolio with at least one closed trade, profit_factor is
\* +infinity iff there is at least one winning trade (pnl > 0) and no losing
\* trade (pnl < 0); otherwise it is the finite ratio gross_profit / gross_loss.
C19_ProfitFactorInfinite ==
  (last.op = "calculate_metrics" /\ Reported.total_trades >= 1)
    => LET xs == ReportedPnls
           winners == {i \in DOMAIN xs : xs[i] > 0}
           losers == {i \in DOMAIN xs : xs[i] < 0}
           pf == Reported.profit_factor
       IN /\ pf.infinite <=> (winners # {} /\ losers = {})
          /\ ~pf.infinite
               => /\ pf.den > 0
                  /\ pf.num = SumSet(winners, xs)
                  /\ pf.den = 0 - SumSet(losers, xs)

\* a reported profit_factor of +infinity for a portfolio without any winning
\* trade
C19_InfiniteWithoutWinner ==
  /\ last.op = "calculate_metrics"
  /\ Reported.total_trades >= 1
  /\ Reported.winning_trades = 0
  /\ Reported.profit_factor.infinite

\* C20: Sortino is +infinity iff the portfolio has at least 2 closed trades
\* and none has a negative return; with fewer than 2 trades it is 0; with at
\* least one negative return (and 2 trades or more) it is finite, its downside
\* variance being the sum of the squared negative returns divided by the full
\* trade count.
C20_Sortino ==
  (last.op = "calculate_metrics" /\ ~Reported.raises)
    => LET xs == ReportedPnls
           n == Len(xs)
           c == portfolios[Reported.strategy_name].initial_capital
           negative == {i \in DOMAIN xs : xs[i] < 0}
           so == Reported.sortino_ratio
       IN /\ c > 0
          /\ n = Reported.total_trades
          /\ so.kind = "inf" <=> (n >= 2 /\ negative = {})
          /\ n < 2 => so.kind = "zero"
          /\ (n >= 2 /\ negative # {})
               => /\ so.kind = "finite"
                  /\ so.downside_variance.den = c * c * n
                  /\ so.downside_variance.num
                       = SumSet(negative, [i \in DOMAIN xs |-> xs[i] * xs[i]])
                  /\ so.root > 0

\* C20 witness: a finite Sortino ratio was reported for two trades of which
\* one lost.
C20_Witness ==
  /\ last.op = "calculate_metrics"
  /\ Reported.total_trades = 2
  /\ Reported.winning_trades = 1
  /\ Reported.sortino_ratio.kind = "finite"
  /\ Reported.sortino_ratio.downside_variance.num > 0

\* an infinite Sortino ratio was reported for two trades without a loss
C20_InfiniteReported ==
  /\ last.op = "calculate_metrics"
  /\ Reported.total_trades = 2
  /\ Reported.sortino_ratio.kind = "inf"

\* the capital series the reported drawdown is computed over: the recorded
\* snapshots or, without any, the initial capital followed by the capital
\* after each closed trade
ReportedSeries ==
  LET recorded == capital_history[Reported.strategy_name]
      portfolio == portfolios[Reported.strategy_name]
      xs == ReportedPnls
  IN IF recorded # <<>> THEN recorded
     ELSE [i \in 1..(Len(xs) + 1) |->
             portfolio.initial_capital + SumSet(1..(i - 1), xs)]

\* the largest of the first i values of a series
RunningPeak(series, i) ==
  CHOOSE v \in {series[j] : j \in 1..i} : \A j \in 1..i : series[j] <= v

\* the drawdown at point i of a series, in units of 1/ScoreScale
DrawdownAt(series, i) ==
  LET peak == RunningPeak(series, i)
  IN IF peak > 0 THEN ((peak - series[i]) * ScoreScale) \div peak ELSE 0

\* C21: the max drawdown reported over a non-decreasing capital series
\* (recorded snapshots or rebuilt from the closed trades) is 0; in general it
\* is the maximum over the series of (running peak - value) / running peak,
\* with 0 where the peak is <= 0, and 0 for a series shorter than 2.
C21_MaxDrawdown ==
  (last.op = "calculate_metrics" /\ Reported.total_trades >= 1)
    => LET series == ReportedSeries
           drawdowns == {DrawdownAt(series, i) : i \in DOMAIN series}
       IN /\ Len(series) < 2 => Reported.max_drawdown = 0
          /\ Len(series) >= 2
               => /\ Reported.max_drawdown \in drawdowns
                  /\ \A d \in drawdowns : d <= Reported.max_drawdown
          /\ (\A i, j \in DOMAIN series : i < j => series[i] <= series[j])
               => Reported.max_drawdown = 0

\* C21 witness: a positive drawdown was reported over recorded snapshots that
\* first rise to a peak and then fall.
C21_Witness ==
  /\ last.op = "calculate_metrics"
  /\ Reported.total_trades >= 1
  /\ Len(capital_history[Reported.strategy_name]) = 3
  /\ capital_history[Reported.strategy_name][1] < capital_history[Reported.strategy_name][2]
  /\ capital_history[Reported.strategy_name][3] < capital_history[Reported.strategy_name][2]
  /\ Reported.max_drawdown > 0
  /\ Reported.max_drawdown < ScoreScale

\* a zero drawdown reported over an increasing series rebuilt from two
\* winning trades
C21_IncreasingRebuilt ==
  /\ last.op = "calculate_metrics"
  /\ capital_history[Reported.strategy_name] = <<>>
  /\ Reported.total_trades = 2
  /\ Reported.winning_trades = 2
  /\ Reported.max_drawdown = 0

\* a zero drawdown reported over snapshots whose peak is never positive
C21_NoPositivePeak ==
  /\ last.op = "calculate_metrics"
  /\ Reported.total_trades >= 1
  /\ capital_history[Reported.strategy_name] = <<0, 0>>
  /\ Reported.max_drawdown = 0

\* C22: calculate_metrics never raises (it never divides by an initial
\* capital of 0); with no closed trade it returns a record whose ratios and
\* win_rate are 0 and whose current_capital is the portfolio's; with exactly
\* one trade Sharpe and Sortino are 0; with two or more trades of zero
\* variance (all of the same pnl) Sharpe is 0.
C22_MetricsEdgeCases ==
  last.op = "calculate_metrics"
    => LET m == Reported
           xs == ReportedPnls
           n == Len(xs)
       IN /\ ~m.raises
          /\ m.sharpe_ratio.kind # "raises"
          /\ m.sortino_ratio.kind # "raises"
          /\ n = 0
               => /\ m.total_trades = 0
                  /\ m.current_capital = portfolios[m.strategy_name].current_capital
                  /\ m.sharpe_ratio.kind = "zero"
                  /\ m.sortino_ratio.kind = "zero"
                  /\ ~m.profit_factor.infinite /\ m.profit_factor.num = 0
                  /\ m.win_rate = 0
                  /\ m.max_drawdown = 0
          /\ n = 1 => m.sharpe_ratio.kind = "zero" /\ m.sortino_ratio.kind = "zero"
          /\ (n >= 2 /\ \A i, j \in DOMAIN xs : xs[i] = xs[j])
               => m.sharpe_ratio.kind = "zero"

\* a Sharpe ratio other than 0 reported for three trades of the same pnl
C22_SharpeOfEqualTrades ==
  /\ last.op = "calculate_metrics"
  /\ Reported.total_trades = 3
  /\ \A i, j \in DOMAIN ReportedPnls : ReportedPnls[i] = ReportedPnls[j]
  /\ Reported.sharpe_ratio.kind = "finite"
  /\ Reported.sharpe_ratio.root = 0

\* a Sharpe ratio of 0 reported for two trades of the same pnl
C22_ZeroSharpeOfTwo ==
  /\ last.op = "calculate_metrics"
  /\ Reported.total_trades = 2
  /\ ReportedPnls[1] = ReportedPnls[2]
  /\ ReportedPnls[1] # 0
  /\ portfolios[Reported.strategy_name].initial_capital = 80
  /\ Reported.sharpe_ratio.kind = "zero"

\* no portfolio with a closed trade has an initial capital of 0
C22_BaselineNeverZero ==
  \A s \in Strategies :
    portfolios[s].closed_positions # <<>> => portfolios[s].initial_capital > 0

\* the entry of strategy s in the ranking returned
RankingOf(s) == CHOOSE r \in {last.result[i] : i \in DOMAIN last.result} : r.name = s

\* C23: the score is 0 below three closed trades; for every metrics record,
\* an infinite profit factor and a huge or negative Sharpe ratio included, it
\* lies between 0 and performance_weight, the Sharpe, win-rate and
\* profit-factor components and the drawdown penalty each between 0 and 1.
C23_ScoreRange ==
  last.op = "rank_strategies"
    => \A s \in Strategies :
         LET r == RankingOf(s)
             p == portfolios[s]
         IN /\ r.total_trades = Len(p.closed_positions)
            /\ r.total_trades < 3 => r.score = 0
            /\ r.score >= 0
            /\ r.score * 10 <= config.performance_weight * ScoreScale
            /\ sharpe_score(p) \in 0..ScoreScale
            /\ win_rate_score(p) \in 0..ScoreScale
            /\ profit_factor_score(p) \in 0..ScoreScale
            /\ drawdown_penalty(capital_history[s], p) \in 0..ScoreScale

\* the full performance_weight scored for three winning trades: an infinite
\* profit factor and a Sharpe ratio far above 2
C23_Witness ==
  /\ last.op = "rank_strategies"
  /\ RankingOf(DrawdownStrategy).total_trades = 3
  /\ profit_factor(portfolios[DrawdownStrategy]).infinite
  /\ sharpe_ratio(portfolios[DrawdownStrategy]).kind = "finite"
  /\ sharpe_ratio(portfolios[DrawdownStrategy]).root = 0
  /\ RankingOf(DrawdownStrategy).score * 10 = config.performance_weight * ScoreScale

\* a score floored at 0: three trades, a negative Sharpe ratio and a
\* drawdown penalty above the weighted performance
C23_Floored ==
  /\ last.op = "rank_strategies"
  /\ RankingOf(DrawdownStrategy).total_trades = 3
  /\ sharpe_ratio(portfolios[DrawdownStrategy]).kind = "finite"
  /\ sharpe_ratio(portfolios[DrawdownStrategy]).num < 0
  /\ calculate_strategy_score_unfloored(capital_history[DrawdownStrategy],
                                        portfolios[DrawdownStrategy]) < 0
  /\ RankingOf(DrawdownStrategy).score = 0

\* a positive score below the full weight
C23_Partial ==
  /\ last.op = "rank_strategies"
  /\ RankingOf(DrawdownStrategy).score > 0
  /\ RankingOf(DrawdownStrategy).score * 10 < config.performance_weight * ScoreScale

\* the open positions check_exits(strategy, market_data) has to close
ToExit(c) ==
  SelectSeq(open_positions(portfolios[c.strategy]),
            LAMBDA p : /\ p.market_id = c.market_data.market_id
                       /\ should_exit(c.strategy, p, c.market_data, c.view))

\* C24: check_exits(strategy, snapshot) closes exactly the open positions of
\* the strategy's portfolio that are on the snapshot's market and whose exit
\* predicate holds, each at the snapshot's yes price with reason
\* "strategy_exit", and returns exactly these; every other position stays
\* open and unchanged.
C24_CheckExits ==
  [][last'.op = "check_exits"
       => \A c \in ExitChecks :
            process_exits(c.strategy, c.market_data, c.view)
              => /\ last'.result =
                      [i \in DOMAIN ToExit(c) |->
                         closed_position(ToExit(c)[i], c.market_data.yes_price,
                                         "strategy_exit")]
                 /\ \A s \in Strategies :
                      /\ open_positions(portfolios'[s]) =
                           SelectSeq(open_positions(portfolios[s]),
                                     LAMBDA p : \A i \in DOMAIN ToExit(c) :
                                                  ToExit(c)[i].id # p.id)
                      /\ portfolios'[s].closed_positions =
                           portfolios[s].closed_positions
                             \o (IF s = c.strategy THEN last'.result ELSE <<>>)]_vars

\* check_exits closed one position while another position, of the same
\* strategy on another market or of another strategy, stayed open
C24_Witness ==
  /\ last.op = "check_exits"
  /\ Len(last.result) = 1
  /\ last.result[1].close_reason = "strategy_exit"
  /\ \E s \in Strategies : open_positions(portfolios[s]) # <<>>

\* check_exits closed nothing and left a position of its strategy open on
\* the snapshot's market: the exit predicate was false
C24_PredicateFalse ==
  /\ last.op = "check_exits"
  /\ last.result = <<>>
  /\ \E p \in {open_positions(portfolios["MeanReversion"])[i] :
                 i \in DOMAIN open_positions(portfolios["MeanReversion"])} :
       \A md \in Snapshots :
         (md.market_id = p.market_id /\ md.close_in_hours = 24)
           => ~should_exit("MeanReversion", p, md, NoHistory)

\* check_exits closed two positions in one call
C24_TwoClosed ==
  /\ last.op = "check_exits"
  /\ Len(last.result) = 2

\* the capital of all portfolios together
TotalCurrentCapital(pfs) ==
  SumSeq([i \in 1..Len(PortfolioOrder) |-> pfs[PortfolioOrder[i]].current_capital])

\* C25: right after every effective rebalance the current_capital of all
\* portfolios together, those included that did not qualify and received no
\* allocation, is at most the allocator's total_capital.
C25_CapitalWithinTotal ==
  [][(Rebalanced /\ allocation_history' # allocation_history)
       => TotalCurrentCapital(portfolios') <= config.max_total_capital]_vars

\* a rebalance that allocated to two strategies and left the third, which
\* did not qualify, with the capital it had
C25_UnqualifiedKeepsCapital ==
  /\ last.op = "rebalance"
  /\ Len(last.result) = 2
  /\ \E s \in Strategies :
       /\ \A i \in DOMAIN last.result : last.result[i].strategy_name # s
       /\ portfolios[s].current_capital > 0
  /\ TotalCurrentCapital(portfolios) > config.max_total_capital

\* C26: available_capital is never negative, for any portfolio in any state
\* reached by execute_signal, close_position, check_exits and rebalance; a
\* rebalance never leaves a portfolio with less capital than the entry cost
\* of the positions it has open.
C26_AvailableNeverNegative ==
  \A s \in Strategies : available_capital(portfolios[s]) >= 0

\* a rebalance has set the capital of a portfolio below the entry cost of
\* its open position
C26_OverwrittenBelowExposure ==
  /\ last.op = "rebalance"
  /\ \E i \in DOMAIN last.result :
       LET p == portfolios[last.result[i].strategy_name]
       IN /\ p.current_capital = last.result[i].new_allocation
          /\ open_positions(p) # <<>>
          /\ available_capital(p) < 0

\* the positions of strategy s closed by the step
NewlyClosed(s) ==
  SubSeq(portfolios'[s].closed_positions,
         Len(portfolios[s].closed_positions) + 1, Len(portfolios'[s].closed_positions))

\* the step is an effective rebalance whose allocations include strategy s
Overwritten(s) ==
  /\ Rebalanced
  /\ allocation_history' # allocation_history
  /\ \E i \in DOMAIN last'.result : last'.result[i].strategy_name = s

\* C27: current_capital changes only by a close, by the pnl of the position
\* closed, and by an effective rebalance, which replaces it together with the
\* baseline; so it is initial_capital plus the pnl of the positions closed
\* since the last overwrite of the portfolio (all closed positions while no
\* rebalance has happened), and every other call leaves it unchanged.
C27_CapitalConservation ==
  /\ [](allocation_history = <<>>
          => \A s \in Strategies :
               portfolios[s].current_capital
                 = portfolios[s].initial_capital + SumSeq(trade_pnls(portfolios[s])))
  /\ [][\A s \in Strategies :
          IF Overwritten(s)
            THEN /\ portfolios'[s].current_capital = portfolios'[s].initial_capital
                 /\ \E i \in DOMAIN last'.result :
                      /\ last'.result[i].strategy_name = s
                      /\ last'.result[i].new_allocation = portfolios'[s].current_capital
            ELSE /\ portfolios'[s].initial_capital = portfolios[s].initial_capital
                 /\ portfolios'[s].current_capital
                      = portfolios[s].current_capital
                          + SumSeq([i \in DOMAIN NewlyClosed(s) |-> pnl(NewlyClosed(s)[i])])
                 /\ last'.op \notin {"close_position", "check_exits", "rebalance"}
                      => portfolios'[s].current_capital = portfolios[s].current_capital]_vars

\* after a rebalance, a position closed at a loss: the capital is the new
\* baseline plus that pnl, not the pnl of all closed positions
C27_Witness ==
  /\ allocation_history # <<>>
  /\ last.op \in {"close_position", "check_exits"}
  /\ last.result # <<>>
  /\ \E s \in Strategies :
       /\ Len(portfolios[s].closed_positions) = 2
       /\ last.result[1].strategy_name = s
       /\ pnl(last.result[1]) # 0
       /\ portfolios[s].current_capital = portfolios[s].initial_capital + pnl(last.result[1])
       /\ portfolios[s].current_capital
            # portfolios[s].initial_capital + SumSeq(trade_pnls(portfolios[s]))

\* the pnl of all closed positions of all portfolios
RealizedPnl(pfs) ==
  SumSeq([i \in 1..Len(PortfolioOrder) |-> SumSeq(trade_pnls(pfs[PortfolioOrder[i]]))])

\* the daily loss breaker is open for good: the running daily P&L is below
\* -max_daily_loss and no position is open
BreakerLatched ==
  /\ daily_pnl < -config.max_daily_loss
  /\ all_open_count(portfolios) = 0

\* C28: the running daily P&L changes only in a close, by the pnl of the
\* position closed (reset_daily_stats is never called by the cycle); it is the
\* pnl of all positions closed since the start; once it is below
\* -max_daily_loss with no position open, every later execute_signal is
\* rejected, for ever.
C28_DailyPnlNeverResets ==
  /\ [](daily_pnl = RealizedPnl(portfolios))
  /\ [][/\ daily_pnl' = daily_pnl + (RealizedPnl(portfolios') - RealizedPnl(portfolios))
        /\ last'.op \notin {"close_position", "check_exits"} => daily_pnl' = daily_pnl
        /\ BreakerLatched
             => /\ BreakerLatched'
                /\ daily_pnl' = daily_pnl
                /\ last'.op = "execute_signal" => last'.result = <<>>]_vars

\* with the breaker latched and the clock advanced past the first rebalance,
\* a signal is rejected for the daily loss
C28_Witness ==
  /\ BreakerLatched
  /\ allocation_history # <<>>
  /\ now > 0
  /\ last.op = "execute_signal"
  /\ last.log = "Daily loss limit reached"

\* C29: a position the cycle opens from a MeanReversion signal is not closed
\* by check_exits of the same cycle, on the same snapshot, when the market
\* has an hour or more to its close.
C29_NotClosedInSameCycle ==
  [][\A market_data \in CycleSnapshots :
       (/\ run_once(market_data)
        /\ last'.id # 0
        /\ market_data.close_in_hours >= 1)
         => \A i \in DOMAIN last'.result : last'.result[i].id # last'.id]_vars

\* a cycle that opened a no-side position and closed it at once, with no
\* other position closed and the position's market a day from its close
C29_ClosedAtOnce ==
  /\ last.op = "process_cycle"
  /\ last.id # 0
  /\ Len(last.result) = 1
  /\ last.result[1].id = last.id
  /\ last.result[1].side = "no"
  /\ last.result[1].close_reason = "strategy_exit"
  /\ \E market_data \in CycleSnapshots :
       /\ market_data.close_in_hours = 24
       /\ mean_reversion_analyze(market_data) # <<>>
       /\ mean_reversion_analyze(market_data)[1].side = "no"
       /\ last.result[1].entry_price = PriceScale - market_data.yes_price
       /\ last.result[1].exit_price = PriceScale - market_data.yes_price

\* a cycle that opened a yes-side position and left it open
C29_YesSideStaysOpen ==
  /\ last.op = "process_cycle"
  /\ last.id # 0
  /\ last.result = <<>>
  /\ \E i \in DOMAIN portfolios["MeanReversion"].positions :
       /\ portfolios["MeanReversion"].positions[i].id = last.id
       /\ portfolios["MeanReversion"].positions[i].side = "yes"

\* C30: once shutdown() has run no cycle is processed (the ledger, the
\* tracker and the allocator are left as they are, even when the scanner
\* yields the signals of the scan in flight), no further scan is started,
\* cleanup is called at most once, and run() ends having called it once.
ShutDown == orchestrator.shutdowns > 0

C30_GracefulShutdown ==
  /\ [][ShutDown => /\ UNCHANGED trading_vars
                    /\ last'.op # "process_cycle"]_vars
  /\ [][(ShutDown /\ orchestrator.task # "scan") => orchestrator'.task # "scan"]_vars
  /\ [](orchestrator.cleanups <= 1)
  /\ [](orchestrator.task = "done" => orchestrator.cleanups = 1)
  /\ (ShutDown ~> (orchestrator.task = "done" /\ orchestrator.cleanups = 1))

\* C30 witness: shutdown() ran during a scan that then yielded a signal; the
\* loop dropped it and cleanup was called, after trading had taken place.
C30_Witness ==
  /\ ShutDown
  /\ last.op = "break"
  /\ last.result # <<>>
  /\ orchestrator.cleanups = 1
  /\ ~orchestrator.running
  /\ portfolios["MeanReversion"].closed_positions # <<>>

\* run() has returned after a shutdown during a sleep, with one cleanup
C30_Terminated ==
  /\ ShutDown
  /\ orchestrator.task = "done"
  /\ orchestrator.cleanups = 1
  /\ allocation_history # <<>>

====
